---- MODULE Spec2Model ----
(***************************************************************************)
(* State-machine model of the caching and sector-aggregation core of the   *)
(* dashboard: DataCache, LazyDataLoader and OptimizedSectorLoader          *)
(* (src/src/utils/cache.py) over the file-backed StockDataLoader           *)
(* (src/src/data/loader.py).                                               *)
(*                                                                         *)
(* Python values are records tagged by "type", so that None, exceptions    *)
(* and DataFrames can be compared with each other.  time.time() is the     *)
(* variable now; every handler runs at one clock value and the clock moves *)
(* between handlers.  Calls do not overlap (the UI is single-threaded): a   *)
(* handler starts when no call is pending, runs to its end in one step and *)
(* leaves the record of the call in ev until the caller takes the result   *)
(* (Return).  The data directory belongs to the environment, which         *)
(* may rewrite any file between two calls: every call that reads the disk  *)
(* takes the content it finds as an input and records it in ev.            *)
(***************************************************************************)
EXTENDS Integers, Sequences, FiniteSets, TLC

VARIABLES
    now,                     \* time.time()
    data_cache,              \* st.session_state.data_cache
    cache_timestamps,        \* st.session_state.cache_timestamps
    _available_tickers,      \* StockDataLoader._available_tickers
    _sector_data_cache,      \* OptimizedSectorLoader._sector_data_cache
    _last_sector_load_time,  \* OptimizedSectorLoader._last_sector_load_time
    other_session,           \* st.session_state of a second browser session
    ev                       \* the last call: its arguments, result and file reads

vars == <<now, data_cache, cache_timestamps, _available_tickers,
          _sector_data_cache, _last_sector_load_time, other_session, ev>>

cacheVars  == <<data_cache, cache_timestamps>>
sectorVars == <<_sector_data_cache, _last_sector_load_time>>

-----------------------------------------------------------------------------
(* Bounds of the model *)

\* The clock starts here (time.time() is far from 0 when the program runs).
StartTime == 7200
\* The clock never passes StartTime + MaxElapsed.
MaxElapsed == 3600
\* The clock moves in steps of Tick seconds.
Tick == 900
\* At most this many entries are stored by a direct set or a loader call.
MaxEntries == 2

-----------------------------------------------------------------------------
(* Program constants *)

cache_ttl == 3600
_sector_cache_ttl == 1800
batch_size == 50

-----------------------------------------------------------------------------
(* Python values *)

None == [type |-> "None"]
Raised == [type |-> "Exception"]
NoFile == [type |-> "NoFile"]

DataFrame(cols, rows) == [type |-> "DataFrame", rows |-> rows, columns |-> cols]

\* A CSV file that pd.read_csv cannot parse (for instance a zero-byte file).
Malformed == [type |-> "csv", rows |-> <<>>, columns |-> {}, parses |-> FALSE]
Csv(cols, rows) == [type |-> "csv", rows |-> rows, columns |-> cols, parses |-> TRUE]

\* Exact value of a float quotient n / d (d # 0), in lowest terms.
RECURSIVE Gcd(_, _)
Gcd(a, b) == IF b = 0 THEN a ELSE Gcd(b, a % b)
Abs(n) == IF n < 0 THEN -n ELSE n
Rat(n, d) ==
    LET g == Gcd(Abs(n), Abs(d))
        s == IF d < 0 THEN -1 ELSE 1
    IN  [num |-> (s * n) \div g, den |-> (s * d) \div g]
Zero == [num |-> 0, den |-> 1]

-----------------------------------------------------------------------------
(* The data directory *)

\* Directory names that can occur under data_dir, in the order sorted() gives.
DirOrder ==
    <<"1064", "7203", "8001", "8002", "8003", "8004", "8005", "8006", "8007",
      "8008", "8009", "8010", "8011", "8012", "8013", "8014", "8015", "8016",
      "8017", "8018", "8019", "8020", "8021", "8022", "8023", "8024", "8025",
      "8026", "8027", "8028", "8029", "8030", "8031", "8032", "8033", "8034",
      "8035", "8036", "8037", "8038", "8039", "8040", "8041", "8042", "8043",
      "8044", "8045", "8046", "8047", "8048", "8049", "8050", "900", "logs">>
\* The directories of the small data roots
DirNames == {"1064", "7203", "logs"}
\* The directories of the large data root
AllDirNames == {DirOrder[i] : i \in 1..Len(DirOrder)}

\* The characters of the strings whose characters the program looks at.
Chars(s) ==
    CASE s = "1064" -> <<"1", "0", "6", "4">>
      [] s = "7203" -> <<"7", "2", "0", "3">>
      [] s = "logs" -> <<"l", "o", "g", "s">>
      [] s = "900" -> <<"9", "0", "0">>
      [] s = "stock_data" -> <<"s", "t", "o", "c", "k", "_", "d", "a", "t", "a">>
      [] s = "company_info" ->
             <<"c", "o", "m", "p", "a", "n", "y", "_", "i", "n", "f", "o">>
      [] s = "9a0103031f48c0507840948e00bf9916" ->
             <<"9","a","0","1","0","3","0","3","1","f","4","8","c","0","5","0",
               "7","8","4","0","9","4","8","e","0","0","b","f","9","9","1","6">>
      [] s = "7f4ab66de0eb5fc67b60ddb2ae0957bd" ->
             <<"7","f","4","a","b","6","6","d","e","0","e","b","5","f","c","6",
               "7","b","6","0","d","d","b","2","a","e","0","9","5","7","b","d">>
      [] s = "092199e1b2e87ddaf9bc3245d7203ba6" ->
             <<"0","9","2","1","9","9","e","1","b","2","e","8","7","d","d","a",
               "f","9","b","c","3","2","4","5","d","7","2","0","3","b","a","6">>
      [] s = "cd6c41d7590ea714f0c9d511d779f190" ->
             <<"c","d","6","c","4","1","d","7","5","9","0","e","a","7","1","4",
               "f","0","c","9","d","5","1","1","d","7","7","9","f","1","9","0">>
      [] s = "a21f14fe1848ad790e15d8cb13dddb9b" ->
             <<"a","2","1","f","1","4","f","e","1","8","4","8","a","d","7","9",
               "0","e","1","5","d","8","c","b","1","3","d","d","d","b","9","b">>
      [] s = "1202e69792c84c10c3309239cf15fdf1" ->
             <<"1","2","0","2","e","6","9","7","9","2","c","8","4","c","1","0",
               "c","3","3","0","9","2","3","9","c","f","1","5","f","d","f","1">>
      [] s = "72e0d9cbf8d0999c7ba9c5561f41f3ba" ->
             <<"7","2","e","0","d","9","c","b","f","8","d","0","9","9","9","c",
               "7","b","a","9","c","5","5","6","1","f","4","1","f","3","b","a">>
      [] s = "62e16df80b87a576798959eb240253b5" ->
             <<"6","2","e","1","6","d","f","8","0","b","8","7","a","5","7","6",
               "7","9","8","9","5","9","e","b","2","4","0","2","5","3","b","5">>
      [] s = "eaa63b1e5351e1c260250dec973bb088" ->
             <<"e","a","a","6","3","b","1","e","5","3","5","1","e","1","c","2",
               "6","0","2","5","0","d","e","c","9","7","3","b","b","0","8","8">>
      [] s = "6eadb3f52e33067656965f1a9dc1a5fd" ->
             <<"6","e","a","d","b","3","f","5","2","e","3","3","0","6","7","6",
               "5","6","9","6","5","f","1","a","9","d","c","1","a","5","f","d">>
      [] s = "6056e3feb6d62f543c4127c19e5ffdf8" ->
             <<"6","0","5","6","e","3","f","e","b","6","d","6","2","f","5","4",
               "3","c","4","1","2","7","c","1","9","e","5","f","f","d","f","8">>
      [] s = "2eaaeec3b31c99d40c029a9eaed0204a" ->
             <<"2","e","a","a","e","e","c","3","b","3","1","c","9","9","d","4",
               "0","c","0","2","9","a","9","e","a","e","d","0","2","0","4","a">>
      [] s = "9fac2102058a5bf31c7af4cfb58e1232" ->
             <<"9","f","a","c","2","1","0","2","0","5","8","a","5","b","f","3",
               "1","c","7","a","f","4","c","f","b","5","8","e","1","2","3","2">>
      [] s = "a505b3375bd984c8e0c2069ac5d0557d" ->
             <<"a","5","0","5","b","3","3","7","5","b","d","9","8","4","c","8",
               "e","0","c","2","0","6","9","a","c","5","d","0","5","5","7","d">>
      [] s = "5ca9d02e8f353868ec4b5299c7f5d88a" ->
             <<"5","c","a","9","d","0","2","e","8","f","3","5","3","8","6","8",
               "e","c","4","b","5","2","9","9","c","7","f","5","d","8","8","a">>
      [] s = "85da5a52c59549972946c6f5cf00ad56" ->
             <<"8","5","d","a","5","a","5","2","c","5","9","5","4","9","9","7",
               "2","9","4","6","c","6","f","5","c","f","0","0","a","d","5","6">>
      [] s = "dac77ba1e136211681d24a9796831a5c" ->
             <<"d","a","c","7","7","b","a","1","e","1","3","6","2","1","1","6",
               "8","1","d","2","4","a","9","7","9","6","8","3","1","a","5","c">>
      [] s = "212e093384438f1642f5731fc4b29c16" ->
             <<"2","1","2","e","0","9","3","3","8","4","4","3","8","f","1","6",
               "4","2","f","5","7","3","1","f","c","4","b","2","9","c","1","6">>
      [] s = "3f8bdd1ccd2602083bb4e032cbd82a01" ->
             <<"3","f","8","b","d","d","1","c","c","d","2","6","0","2","0","8",
               "3","b","b","4","e","0","3","2","c","b","d","8","2","a","0","1">>
      [] s = "57ac23ed4b762e66801bc3a78be7d3d7" ->
             <<"5","7","a","c","2","3","e","d","4","b","7","6","2","e","6","6",
               "8","0","1","b","c","3","a","7","8","b","e","7","d","3","d","7">>
      [] s = "2c7c9594b94e49e3f9f89f1cd0ba48ee" ->
             <<"2","c","7","c","9","5","9","4","b","9","4","e","4","9","e","3",
               "f","9","f","8","9","f","1","c","d","0","b","a","4","8","e","e">>
      [] s = "160a434a4c6605742eb72b8a741250d0" ->
             <<"1","6","0","a","4","3","4","a","4","c","6","6","0","5","7","4",
               "2","e","b","7","2","b","8","a","7","4","1","2","5","0","d","0">>
      [] s = "46b010bfabc625cd409e12c62811f518" ->
             <<"4","6","b","0","1","0","b","f","a","b","c","6","2","5","c","d",
               "4","0","9","e","1","2","c","6","2","8","1","1","f","5","1","8">>
      [] s = "1737d94b95349c72ea7967dce9311165" ->
             <<"1","7","3","7","d","9","4","b","9","5","3","4","9","c","7","2",
               "e","a","7","9","6","7","d","c","e","9","3","1","1","1","6","5">>
      [] s = "bf43ba0c6dd834b1acb2444b7cb16cdb" ->
             <<"b","f","4","3","b","a","0","c","6","d","d","8","3","4","b","1",
               "a","c","b","2","4","4","4","b","7","c","b","1","6","c","d","b">>
      [] s = "0a3b197c4e1bea7e34c2ec5ccfd0daa8" ->
             <<"0","a","3","b","1","9","7","c","4","e","1","b","e","a","7","e",
               "3","4","c","2","e","c","5","c","c","f","d","0","d","a","a","8">>
      [] s = "1a82af8509079b293fa59ef57005728f" ->
             <<"1","a","8","2","a","f","8","5","0","9","0","7","9","b","2","9",
               "3","f","a","5","9","e","f","5","7","0","0","5","7","2","8","f">>
      [] s = "633e49c5773339cbee8d06a39aaaa5b9" ->
             <<"6","3","3","e","4","9","c","5","7","7","3","3","3","9","c","b",
               "e","e","8","d","0","6","a","3","9","a","a","a","a","5","b","9">>
      [] s = "f45809b72820207d17a5ee6e0542cfeb" ->
             <<"f","4","5","8","0","9","b","7","2","8","2","0","2","0","7","d",
               "1","7","a","5","e","e","6","e","0","5","4","2","c","f","e","b">>
      [] s = "709b6ae83eacbc7c8e5deca2d5b25d26" ->
             <<"7","0","9","b","6","a","e","8","3","e","a","c","b","c","7","c",
               "8","e","5","d","e","c","a","2","d","5","b","2","5","d","2","6">>
      [] s = "63aea282acf2f7da5f178c12b3703d27" ->
             <<"6","3","a","e","a","2","8","2","a","c","f","2","f","7","d","a",
               "5","f","1","7","8","c","1","2","b","3","7","0","3","d","2","7">>
      [] s = "3b638dae9dd121e5f2ca841319399ecb" ->
             <<"3","b","6","3","8","d","a","e","9","d","d","1","2","1","e","5",
               "f","2","c","a","8","4","1","3","1","9","3","9","9","e","c","b">>
      [] s = "8001" -> <<"8", "0", "0", "1">>
      [] s = "8002" -> <<"8", "0", "0", "2">>
      [] s = "8003" -> <<"8", "0", "0", "3">>
      [] s = "8004" -> <<"8", "0", "0", "4">>
      [] s = "8005" -> <<"8", "0", "0", "5">>
      [] s = "8006" -> <<"8", "0", "0", "6">>
      [] s = "8007" -> <<"8", "0", "0", "7">>
      [] s = "8008" -> <<"8", "0", "0", "8">>
      [] s = "8009" -> <<"8", "0", "0", "9">>
      [] s = "8010" -> <<"8", "0", "1", "0">>
      [] s = "8011" -> <<"8", "0", "1", "1">>
      [] s = "8012" -> <<"8", "0", "1", "2">>
      [] s = "8013" -> <<"8", "0", "1", "3">>
      [] s = "8014" -> <<"8", "0", "1", "4">>
      [] s = "8015" -> <<"8", "0", "1", "5">>
      [] s = "8016" -> <<"8", "0", "1", "6">>
      [] s = "8017" -> <<"8", "0", "1", "7">>
      [] s = "8018" -> <<"8", "0", "1", "8">>
      [] s = "8019" -> <<"8", "0", "1", "9">>
      [] s = "8020" -> <<"8", "0", "2", "0">>
      [] s = "8021" -> <<"8", "0", "2", "1">>
      [] s = "8022" -> <<"8", "0", "2", "2">>
      [] s = "8023" -> <<"8", "0", "2", "3">>
      [] s = "8024" -> <<"8", "0", "2", "4">>
      [] s = "8025" -> <<"8", "0", "2", "5">>
      [] s = "8026" -> <<"8", "0", "2", "6">>
      [] s = "8027" -> <<"8", "0", "2", "7">>
      [] s = "8028" -> <<"8", "0", "2", "8">>
      [] s = "8029" -> <<"8", "0", "2", "9">>
      [] s = "8030" -> <<"8", "0", "3", "0">>
      [] s = "8031" -> <<"8", "0", "3", "1">>
      [] s = "8032" -> <<"8", "0", "3", "2">>
      [] s = "8033" -> <<"8", "0", "3", "3">>
      [] s = "8034" -> <<"8", "0", "3", "4">>
      [] s = "8035" -> <<"8", "0", "3", "5">>
      [] s = "8036" -> <<"8", "0", "3", "6">>
      [] s = "8037" -> <<"8", "0", "3", "7">>
      [] s = "8038" -> <<"8", "0", "3", "8">>
      [] s = "8039" -> <<"8", "0", "3", "9">>
      [] s = "8040" -> <<"8", "0", "4", "0">>
      [] s = "8041" -> <<"8", "0", "4", "1">>
      [] s = "8042" -> <<"8", "0", "4", "2">>
      [] s = "8043" -> <<"8", "0", "4", "3">>
      [] s = "8044" -> <<"8", "0", "4", "4">>
      [] s = "8045" -> <<"8", "0", "4", "5">>
      [] s = "8046" -> <<"8", "0", "4", "6">>
      [] s = "8047" -> <<"8", "0", "4", "7">>
      [] s = "8048" -> <<"8", "0", "4", "8">>
      [] s = "8049" -> <<"8", "0", "4", "9">>
      [] s = "8050" -> <<"8", "0", "5", "0">>
      [] s = "8165593a08b22a635f06df2ab1023e95" ->
             <<"8","1","6","5","5","9","3","a","0","8","b","2","2","a","6","3",
               "5","f","0","6","d","f","2","a","b","1","0","2","3","e","9","5">>
      [] s = "a0aec5cc4367fb23ce11ac8d049a078a" ->
             <<"a","0","a","e","c","5","c","c","4","3","6","7","f","b","2","3",
               "c","e","1","1","a","c","8","d","0","4","9","a","0","7","8","a">>
      [] s = "b426aa76ad668636cd4d84b5de7a1bad" ->
             <<"b","4","2","6","a","a","7","6","a","d","6","6","8","6","3","6",
               "c","d","4","d","8","4","b","5","d","e","7","a","1","b","a","d">>
      [] s = "8c465dc85987a76ab076a585495284c1" ->
             <<"8","c","4","6","5","d","c","8","5","9","8","7","a","7","6","a",
               "b","0","7","6","a","5","8","5","4","9","5","2","8","4","c","1">>
      [] s = "18c60f1b0a2da6ade0d02ceffaa96912" ->
             <<"1","8","c","6","0","f","1","b","0","a","2","d","a","6","a","d",
               "e","0","d","0","2","c","e","f","f","a","a","9","6","9","1","2">>
      [] s = "1f7a0f27db288bb22ca50aa4b4ebd327" ->
             <<"1","f","7","a","0","f","2","7","d","b","2","8","8","b","b","2",
               "2","c","a","5","0","a","a","4","b","4","e","b","d","3","2","7">>
      [] s = "1c427aa5785f0c19396b01b138e22b9a" ->
             <<"1","c","4","2","7","a","a","5","7","8","5","f","0","c","1","9",
               "3","9","6","b","0","1","b","1","3","8","e","2","2","b","9","a">>
      [] s = "6d2da9402e2e5ab836c142572f942f5f" ->
             <<"6","d","2","d","a","9","4","0","2","e","2","e","5","a","b","8",
               "3","6","c","1","4","2","5","7","2","f","9","4","2","f","5","f">>
      [] s = "a3f752c9797f2f5ed03348f8ec9b2174" ->
             <<"a","3","f","7","5","2","c","9","7","9","7","f","2","f","5","e",
               "d","0","3","3","4","8","f","8","e","c","9","b","2","1","7","4">>
      [] s = "d6073734da97b17176dc4c577dc3a55b" ->
             <<"d","6","0","7","3","7","3","4","d","a","9","7","b","1","7","1",
               "7","6","d","c","4","c","5","7","7","d","c","3","a","5","5","b">>
      [] s = "274b51c91b937981430e9791fb3afc91" ->
             <<"2","7","4","b","5","1","c","9","1","b","9","3","7","9","8","1",
               "4","3","0","e","9","7","9","1","f","b","3","a","f","c","9","1">>
      [] s = "22c96d1274ffd9fa1f2ab98225e03dfe" ->
             <<"2","2","c","9","6","d","1","2","7","4","f","f","d","9","f","a",
               "1","f","2","a","b","9","8","2","2","5","e","0","3","d","f","e">>
      [] s = "71d4a031812996d291740b7819c20d04" ->
             <<"7","1","d","4","a","0","3","1","8","1","2","9","9","6","d","2",
               "9","1","7","4","0","b","7","8","1","9","c","2","0","d","0","4">>
      [] s = "6dfd83b5d8ecc97b10cfbf3e742c8df6" ->
             <<"6","d","f","d","8","3","b","5","d","8","e","c","c","9","7","b",
               "1","0","c","f","b","f","3","e","7","4","2","c","8","d","f","6">>
      [] s = "67a43bd4d4fe2e291d0eca3ea55626fd" ->
             <<"6","7","a","4","3","b","d","4","d","4","f","e","2","e","2","9",
               "1","d","0","e","c","a","3","e","a","5","5","6","2","6","f","d">>
      [] s = "608ec6e51c5d5e31fc7764cf348ba784" ->
             <<"6","0","8","e","c","6","e","5","1","c","5","d","5","e","3","1",
               "f","c","7","7","6","4","c","f","3","4","8","b","a","7","8","4">>
      [] s = "fb6950851ab7a29d0feeee330631d78a" ->
             <<"f","b","6","9","5","0","8","5","1","a","b","7","a","2","9","d",
               "0","f","e","e","e","e","3","3","0","6","3","1","d","7","8","a">>
      [] s = "a6776011f6748719d77bbbc1d8044a01" ->
             <<"a","6","7","7","6","0","1","1","f","6","7","4","8","7","1","9",
               "d","7","7","b","b","b","c","1","d","8","0","4","4","a","0","1">>
      [] s = "459ba695150a80e5e4b32a0fb5c633b6" ->
             <<"4","5","9","b","a","6","9","5","1","5","0","a","8","0","e","5",
               "e","4","b","3","2","a","0","f","b","5","c","6","3","3","b","6">>
      [] s = "b44b25ee34a15c91246a753300433593" ->
             <<"b","4","4","b","2","5","e","e","3","4","a","1","5","c","9","1",
               "2","4","6","a","7","5","3","3","0","0","4","3","3","5","9","3">>
      [] s = "080859fdb92ed2260dd00462dc57ecc7" ->
             <<"0","8","0","8","5","9","f","d","b","9","2","e","d","2","2","6",
               "0","d","d","0","0","4","6","2","d","c","5","7","e","c","c","7">>
      [] s = "c24c7a794ecab5ac01489b6fca835f7c" ->
             <<"c","2","4","c","7","a","7","9","4","e","c","a","b","5","a","c",
               "0","1","4","8","9","b","6","f","c","a","8","3","5","f","7","c">>
      [] s = "512de4b964f9bded6a755d8ff636a5d7" ->
             <<"5","1","2","d","e","4","b","9","6","4","f","9","b","d","e","d",
               "6","a","7","5","5","d","8","f","f","6","3","6","a","5","d","7">>
      [] s = "848eaa217f4c22ddee2c1274f2150b6d" ->
             <<"8","4","8","e","a","a","2","1","7","f","4","c","2","2","d","d",
               "e","e","2","c","1","2","7","4","f","2","1","5","0","b","6","d">>
      [] s = "ce3f56150d728f75efe3c9c3b475df5e" ->
             <<"c","e","3","f","5","6","1","5","0","d","7","2","8","f","7","5",
               "e","f","e","3","c","9","c","3","b","4","7","5","d","f","5","e">>
      [] s = "6c54a35e0068f4351cec6f762d37d58c" ->
             <<"6","c","5","4","a","3","5","e","0","0","6","8","f","4","3","5",
               "1","c","e","c","6","f","7","6","2","d","3","7","d","5","8","c">>
      [] s = "ba289c4ff080a28d916d7cb35d7aafdc" ->
             <<"b","a","2","8","9","c","4","f","f","0","8","0","a","2","8","d",
               "9","1","6","d","7","c","b","3","5","d","7","a","a","f","d","c">>
      [] s = "caed5fac50c3f1fa45c55a10005437a6" ->
             <<"c","a","e","d","5","f","a","c","5","0","c","3","f","1","f","a",
               "4","5","c","5","5","a","1","0","0","0","5","4","3","7","a","6">>
      [] s = "f1d3375702121c23f90b760b73531a16" ->
             <<"f","1","d","3","3","7","5","7","0","2","1","2","1","c","2","3",
               "f","9","0","b","7","6","0","b","7","3","5","3","1","a","1","6">>
      [] s = "20600a7632b1f55448f999099d6191c2" ->
             <<"2","0","6","0","0","a","7","6","3","2","b","1","f","5","5","4",
               "4","8","f","9","9","9","0","9","9","d","6","1","9","1","c","2">>
      [] s = "c82e298d4ae513c58ebc8328a073c16b" ->
             <<"c","8","2","e","2","9","8","d","4","a","e","5","1","3","c","5",
               "8","e","b","c","8","3","2","8","a","0","7","3","c","1","6","b">>
      [] s = "30851bab75d496374591e071689fb8a5" ->
             <<"3","0","8","5","1","b","a","b","7","5","d","4","9","6","3","7",
               "4","5","9","1","e","0","7","1","6","8","9","f","b","8","a","5">>
      [] s = "92a76eb1f7abd86714c8d8f89f6c29b8" ->
             <<"9","2","a","7","6","e","b","1","f","7","a","b","d","8","6","7",
               "1","4","c","8","d","8","f","8","9","f","6","c","2","9","b","8">>
      [] s = "bbb7a70d3d777d44b5843e92e378f3c2" ->
             <<"b","b","b","7","a","7","0","d","3","d","7","7","7","d","4","4",
               "b","5","8","4","3","e","9","2","e","3","7","8","f","3","c","2">>
      [] s = "2124c062e199e9700d182d3b17e487b9" ->
             <<"2","1","2","4","c","0","6","2","e","1","9","9","e","9","7","0",
               "0","d","1","8","2","d","3","b","1","7","e","4","8","7","b","9">>
      [] s = "65ca8970580024de37c07640ecd6ff01" ->
             <<"6","5","c","a","8","9","7","0","5","8","0","0","2","4","d","e",
               "3","7","c","0","7","6","4","0","e","c","d","6","f","f","0","1">>
      [] s = "33fc794d1093d7658081ab0368592a46" ->
             <<"3","3","f","c","7","9","4","d","1","0","9","3","d","7","6","5",
               "8","0","8","1","a","b","0","3","6","8","5","9","2","a","4","6">>
      [] s = "34f7f2c8f3ca84383eb43f403e638ecf" ->
             <<"3","4","f","7","f","2","c","8","f","3","c","a","8","4","3","8",
               "3","e","b","4","3","f","4","0","3","e","6","3","8","e","c","f">>
      [] s = "4555a13beff25b1efa5b42d03e2cabb3" ->
             <<"4","5","5","5","a","1","3","b","e","f","f","2","5","b","1","e",
               "f","a","5","b","4","2","d","0","3","e","2","c","a","b","b","3">>
      [] s = "d23cedd47a575cab99fd3676ec5f53d6" ->
             <<"d","2","3","c","e","d","d","4","7","a","5","7","5","c","a","b",
               "9","9","f","d","3","6","7","6","e","c","5","f","5","3","d","6">>
      [] s = "ab8ad6cd559969c473b0c3b82369468d" ->
             <<"a","b","8","a","d","6","c","d","5","5","9","9","6","9","c","4",
               "7","3","b","0","c","3","b","8","2","3","6","9","4","6","8","d">>
      [] s = "afb8db936c472747f024e1cc7d6e3ea9" ->
             <<"a","f","b","8","d","b","9","3","6","c","4","7","2","7","4","7",
               "f","0","2","4","e","1","c","c","7","d","6","e","3","e","a","9">>
      [] s = "c73bae59867d6ad23048c37a66a75abf" ->
             <<"c","7","3","b","a","e","5","9","8","6","7","d","6","a","d","2",
               "3","0","4","8","c","3","7","a","6","6","a","7","5","a","b","f">>
      [] s = "2f53c16721954d679d0ee000e80fcf5d" ->
             <<"2","f","5","3","c","1","6","7","2","1","9","5","4","d","6","7",
               "9","d","0","e","e","0","0","0","e","8","0","f","c","f","5","d">>
      [] s = "3aae2bde5613e4ae69c79c7bd3b51bab" ->
             <<"3","a","a","e","2","b","d","e","5","6","1","3","e","4","a","e",
               "6","9","c","7","9","c","7","b","d","3","b","5","1","b","a","b">>
      [] s = "47e30dfcff14071ffe550a11a851b024" ->
             <<"4","7","e","3","0","d","f","c","f","f","1","4","0","7","1","f",
               "f","e","5","5","0","a","1","1","a","8","5","1","b","0","2","4">>
      [] s = "7eccbc96e2116d247dcbd21b10e7e893" ->
             <<"7","e","c","c","b","c","9","6","e","2","1","1","6","d","2","4",
               "7","d","c","b","d","2","1","b","1","0","e","7","e","8","9","3">>
      [] s = "76d65914f80f17bb7c8a800bd22fd553" ->
             <<"7","6","d","6","5","9","1","4","f","8","0","f","1","7","b","b",
               "7","c","8","a","8","0","0","b","d","2","2","f","d","5","5","3">>
      [] s = "ddeec7eebef5be134eadcdffbbfd6f04" ->
             <<"d","d","e","e","c","7","e","e","b","e","f","5","b","e","1","3",
               "4","e","a","d","c","d","f","f","b","b","f","d","6","f","0","4">>
      [] s = "16db6c543be7af589441d268a07b7676" ->
             <<"1","6","d","b","6","c","5","4","3","b","e","7","a","f","5","8",
               "9","4","4","1","d","2","6","8","a","0","7","b","7","6","7","6">>
      [] OTHER -> <<>>

Digits == {"0", "1", "2", "3", "4", "5", "6", "7", "8", "9"}

\* str.isdigit()
isdigit(s) == Len(Chars(s)) > 0 /\ \A i \in 1..Len(Chars(s)) : Chars(s)[i] \in Digits

\* sorted() of a set of directory names
sorted(S) == SelectSeq(DirOrder, LAMBDA n : n \in S)

Tickers == {n \in DirNames : isdigit(n)}

-----------------------------------------------------------------------------
(* Cache keys *)

\* hashlib.md5(s.encode()).hexdigest(), tabulated for the key strings of the model
md5(s) ==
    CASE s = "{\"data_type\": \"stock_data\", \"ticker\": \"1064\"}" ->
             "092199e1b2e87ddaf9bc3245d7203ba6"
      [] s = "{\"data_type\": \"stock_data\", \"period\": \"1y\", \"ticker\": \"1064\"}" ->
             "cd6c41d7590ea714f0c9d511d779f190"
      [] s = "{\"data_type\": \"stock_data\", \"interval\": \"1d\", \"ticker\": \"1064\"}" ->
             "a21f14fe1848ad790e15d8cb13dddb9b"
      [] s = "{\"data_type\": \"stock_data\", \"interval\": \"1d\", \"period\": \"1y\", \"ticker\": \"1064\"}" ->
             "1202e69792c84c10c3309239cf15fdf1"
      [] s = "{\"data_type\": \"company_info\", \"ticker\": \"1064\"}" ->
             "72e0d9cbf8d0999c7ba9c5561f41f3ba"
      [] s = "{\"data_type\": \"company_info\", \"period\": \"1y\", \"ticker\": \"1064\"}" ->
             "62e16df80b87a576798959eb240253b5"
      [] s = "{\"data_type\": \"company_info\", \"interval\": \"1d\", \"ticker\": \"1064\"}" ->
             "eaa63b1e5351e1c260250dec973bb088"
      [] s = "{\"data_type\": \"company_info\", \"interval\": \"1d\", \"period\": \"1y\", \"ticker\": \"1064\"}" ->
             "6eadb3f52e33067656965f1a9dc1a5fd"
      [] s = "{\"data_type\": \"stock_data\", \"ticker\": \"7203\"}" ->
             "6056e3feb6d62f543c4127c19e5ffdf8"
      [] s = "{\"data_type\": \"stock_data\", \"period\": \"1y\", \"ticker\": \"7203\"}" ->
             "2eaaeec3b31c99d40c029a9eaed0204a"
      [] s = "{\"data_type\": \"stock_data\", \"interval\": \"1d\", \"ticker\": \"7203\"}" ->
             "9fac2102058a5bf31c7af4cfb58e1232"
      [] s = "{\"data_type\": \"stock_data\", \"interval\": \"1d\", \"period\": \"1y\", \"ticker\": \"7203\"}" ->
             "a505b3375bd984c8e0c2069ac5d0557d"
      [] s = "{\"data_type\": \"company_info\", \"ticker\": \"7203\"}" ->
             "5ca9d02e8f353868ec4b5299c7f5d88a"
      [] s = "{\"data_type\": \"company_info\", \"period\": \"1y\", \"ticker\": \"7203\"}" ->
             "85da5a52c59549972946c6f5cf00ad56"
      [] s = "{\"data_type\": \"company_info\", \"interval\": \"1d\", \"ticker\": \"7203\"}" ->
             "dac77ba1e136211681d24a9796831a5c"
      [] s = "{\"data_type\": \"company_info\", \"interval\": \"1d\", \"period\": \"1y\", \"ticker\": \"7203\"}" ->
             "212e093384438f1642f5731fc4b29c16"
      [] s = "{\"data_type\": \"financial_income_statement\", \"ticker\": \"1064\"}" ->
             "3f8bdd1ccd2602083bb4e032cbd82a01"
      [] s = "{\"data_type\": \"financial_balance_sheet\", \"ticker\": \"1064\"}" ->
             "57ac23ed4b762e66801bc3a78be7d3d7"
      [] s = "{\"data_type\": \"financial_cashflow\", \"ticker\": \"1064\"}" ->
             "2c7c9594b94e49e3f9f89f1cd0ba48ee"
      [] s = "{\"data_type\": \"financial_financial_ratios\", \"ticker\": \"1064\"}" ->
             "160a434a4c6605742eb72b8a741250d0"
      [] s = "{\"data_type\": \"financial_quarterly\", \"ticker\": \"1064\"}" ->
             "46b010bfabc625cd409e12c62811f518"
      [] s = "{\"data_type\": \"dividend_data\", \"ticker\": \"1064\"}" ->
             "1737d94b95349c72ea7967dce9311165"
      [] s = "{\"data_type\": \"news_data\", \"ticker\": \"1064\"}" ->
             "bf43ba0c6dd834b1acb2444b7cb16cdb"
      [] s = "{\"data_type\": \"financial_income_statement\", \"ticker\": \"7203\"}" ->
             "0a3b197c4e1bea7e34c2ec5ccfd0daa8"
      [] s = "{\"data_type\": \"financial_balance_sheet\", \"ticker\": \"7203\"}" ->
             "1a82af8509079b293fa59ef57005728f"
      [] s = "{\"data_type\": \"financial_cashflow\", \"ticker\": \"7203\"}" ->
             "633e49c5773339cbee8d06a39aaaa5b9"
      [] s = "{\"data_type\": \"financial_financial_ratios\", \"ticker\": \"7203\"}" ->
             "f45809b72820207d17a5ee6e0542cfeb"
      [] s = "{\"data_type\": \"financial_quarterly\", \"ticker\": \"7203\"}" ->
             "709b6ae83eacbc7c8e5deca2d5b25d26"
      [] s = "{\"data_type\": \"dividend_data\", \"ticker\": \"7203\"}" ->
             "63aea282acf2f7da5f178c12b3703d27"
      [] s = "{\"data_type\": \"news_data\", \"ticker\": \"7203\"}" ->
             "3b638dae9dd121e5f2ca841319399ecb"
      [] s = "{\"data_type\": \"stock_data\", \"ticker\": \"8001\"}" ->
             "8165593a08b22a635f06df2ab1023e95"
      [] s = "{\"data_type\": \"stock_data\", \"ticker\": \"8002\"}" ->
             "a0aec5cc4367fb23ce11ac8d049a078a"
      [] s = "{\"data_type\": \"stock_data\", \"ticker\": \"8003\"}" ->
             "b426aa76ad668636cd4d84b5de7a1bad"
      [] s = "{\"data_type\": \"stock_data\", \"ticker\": \"8004\"}" ->
             "8c465dc85987a76ab076a585495284c1"
      [] s = "{\"data_type\": \"stock_data\", \"ticker\": \"8005\"}" ->
             "18c60f1b0a2da6ade0d02ceffaa96912"
      [] s = "{\"data_type\": \"stock_data\", \"ticker\": \"8006\"}" ->
             "1f7a0f27db288bb22ca50aa4b4ebd327"
      [] s = "{\"data_type\": \"stock_data\", \"ticker\": \"8007\"}" ->
             "1c427aa5785f0c19396b01b138e22b9a"
      [] s = "{\"data_type\": \"stock_data\", \"ticker\": \"8008\"}" ->
             "6d2da9402e2e5ab836c142572f942f5f"
      [] s = "{\"data_type\": \"stock_data\", \"ticker\": \"8009\"}" ->
             "a3f752c9797f2f5ed03348f8ec9b2174"
      [] s = "{\"data_type\": \"stock_data\", \"ticker\": \"8010\"}" ->
             "d6073734da97b17176dc4c577dc3a55b"
      [] s = "{\"data_type\": \"stock_data\", \"ticker\": \"8011\"}" ->
             "274b51c91b937981430e9791fb3afc91"
      [] s = "{\"data_type\": \"stock_data\", \"ticker\": \"8012\"}" ->
             "22c96d1274ffd9fa1f2ab98225e03dfe"
      [] s = "{\"data_type\": \"stock_data\", \"ticker\": \"8013\"}" ->
             "71d4a031812996d291740b7819c20d04"
      [] s = "{\"data_type\": \"stock_data\", \"ticker\": \"8014\"}" ->
             "6dfd83b5d8ecc97b10cfbf3e742c8df6"
      [] s = "{\"data_type\": \"stock_data\", \"ticker\": \"8015\"}" ->
             "67a43bd4d4fe2e291d0eca3ea55626fd"
      [] s = "{\"data_type\": \"stock_data\", \"ticker\": \"8016\"}" ->
             "608ec6e51c5d5e31fc7764cf348ba784"
      [] s = "{\"data_type\": \"stock_data\", \"ticker\": \"8017\"}" ->
             "fb6950851ab7a29d0feeee330631d78a"
      [] s = "{\"data_type\": \"stock_data\", \"ticker\": \"8018\"}" ->
             "a6776011f6748719d77bbbc1d8044a01"
      [] s = "{\"data_type\": \"stock_data\", \"ticker\": \"8019\"}" ->
             "459ba695150a80e5e4b32a0fb5c633b6"
      [] s = "{\"data_type\": \"stock_data\", \"ticker\": \"8020\"}" ->
             "b44b25ee34a15c91246a753300433593"
      [] s = "{\"data_type\": \"stock_data\", \"ticker\": \"8021\"}" ->
             "080859fdb92ed2260dd00462dc57ecc7"
      [] s = "{\"data_type\": \"stock_data\", \"ticker\": \"8022\"}" ->
             "c24c7a794ecab5ac01489b6fca835f7c"
      [] s = "{\"data_type\": \"stock_data\", \"ticker\": \"8023\"}" ->
             "512de4b964f9bded6a755d8ff636a5d7"
      [] s = "{\"data_type\": \"stock_data\", \"ticker\": \"8024\"}" ->
             "848eaa217f4c22ddee2c1274f2150b6d"
      [] s = "{\"data_type\": \"stock_data\", \"ticker\": \"8025\"}" ->
             "ce3f56150d728f75efe3c9c3b475df5e"
      [] s = "{\"data_type\": \"stock_data\", \"ticker\": \"8026\"}" ->
             "6c54a35e0068f4351cec6f762d37d58c"
      [] s = "{\"data_type\": \"stock_data\", \"ticker\": \"8027\"}" ->
             "ba289c4ff080a28d916d7cb35d7aafdc"
      [] s = "{\"data_type\": \"stock_data\", \"ticker\": \"8028\"}" ->
             "caed5fac50c3f1fa45c55a10005437a6"
      [] s = "{\"data_type\": \"stock_data\", \"ticker\": \"8029\"}" ->
             "f1d3375702121c23f90b760b73531a16"
      [] s = "{\"data_type\": \"stock_data\", \"ticker\": \"8030\"}" ->
             "20600a7632b1f55448f999099d6191c2"
      [] s = "{\"data_type\": \"stock_data\", \"ticker\": \"8031\"}" ->
             "c82e298d4ae513c58ebc8328a073c16b"
      [] s = "{\"data_type\": \"stock_data\", \"ticker\": \"8032\"}" ->
             "30851bab75d496374591e071689fb8a5"
      [] s = "{\"data_type\": \"stock_data\", \"ticker\": \"8033\"}" ->
             "92a76eb1f7abd86714c8d8f89f6c29b8"
      [] s = "{\"data_type\": \"stock_data\", \"ticker\": \"8034\"}" ->
             "bbb7a70d3d777d44b5843e92e378f3c2"
      [] s = "{\"data_type\": \"stock_data\", \"ticker\": \"8035\"}" ->
             "2124c062e199e9700d182d3b17e487b9"
      [] s = "{\"data_type\": \"stock_data\", \"ticker\": \"8036\"}" ->
             "65ca8970580024de37c07640ecd6ff01"
      [] s = "{\"data_type\": \"stock_data\", \"ticker\": \"8037\"}" ->
             "33fc794d1093d7658081ab0368592a46"
      [] s = "{\"data_type\": \"stock_data\", \"ticker\": \"8038\"}" ->
             "34f7f2c8f3ca84383eb43f403e638ecf"
      [] s = "{\"data_type\": \"stock_data\", \"ticker\": \"8039\"}" ->
             "4555a13beff25b1efa5b42d03e2cabb3"
      [] s = "{\"data_type\": \"stock_data\", \"ticker\": \"8040\"}" ->
             "d23cedd47a575cab99fd3676ec5f53d6"
      [] s = "{\"data_type\": \"stock_data\", \"ticker\": \"8041\"}" ->
             "ab8ad6cd559969c473b0c3b82369468d"
      [] s = "{\"data_type\": \"stock_data\", \"ticker\": \"8042\"}" ->
             "afb8db936c472747f024e1cc7d6e3ea9"
      [] s = "{\"data_type\": \"stock_data\", \"ticker\": \"8043\"}" ->
             "c73bae59867d6ad23048c37a66a75abf"
      [] s = "{\"data_type\": \"stock_data\", \"ticker\": \"8044\"}" ->
             "2f53c16721954d679d0ee000e80fcf5d"
      [] s = "{\"data_type\": \"stock_data\", \"ticker\": \"8045\"}" ->
             "3aae2bde5613e4ae69c79c7bd3b51bab"
      [] s = "{\"data_type\": \"stock_data\", \"ticker\": \"8046\"}" ->
             "47e30dfcff14071ffe550a11a851b024"
      [] s = "{\"data_type\": \"stock_data\", \"ticker\": \"8047\"}" ->
             "7eccbc96e2116d247dcbd21b10e7e893"
      [] s = "{\"data_type\": \"stock_data\", \"ticker\": \"8048\"}" ->
             "76d65914f80f17bb7c8a800bd22fd553"
      [] s = "{\"data_type\": \"stock_data\", \"ticker\": \"8049\"}" ->
             "ddeec7eebef5be134eadcdffbbfd6f04"
      [] s = "{\"data_type\": \"stock_data\", \"ticker\": \"8050\"}" ->
             "16db6c543be7af589441d268a07b7676"
      [] s = "{\"data_type\": \"stock_data\", \"ticker\": \"900\"}" ->
             "9a0103031f48c0507840948e00bf9916"
      [] s = "{\"data_type\": \"company_info\", \"ticker\": \"900\"}" ->
             "7f4ab66de0eb5fc67b60ddb2ae0957bd"
      [] OTHER -> "unknown"

\* Keyword-argument names, in the order json.dumps(sort_keys=True) writes them.
KeyOrder == <<"data_type", "interval", "period", "ticker">>

\* Mutant: the extra parameters are left out of the key
key_data_without_kwargs(ticker, data_type, kwargs) ==
    [n \in {"ticker", "data_type"} |-> IF n = "ticker" THEN ticker ELSE data_type]

\* The dict {'ticker': ticker, 'data_type': data_type, **kwargs}; kwargs is the
\* sequence of <<name, value>> pairs in the order the caller wrote them.
key_data(ticker, data_type, kwargs) ==
    LET names == {kwargs[i][1] : i \in 1..Len(kwargs)}
        Last(n) == CHOOSE i \in 1..Len(kwargs) :
                      /\ kwargs[i][1] = n
                      /\ \A j \in 1..Len(kwargs) : kwargs[j][1] = n => j <= i
    IN  [n \in {"ticker", "data_type"} \cup names |->
            IF n \in names THEN kwargs[Last(n)][2]
            ELSE IF n = "ticker" THEN ticker ELSE data_type]

RECURSIVE JoinItems(_, _)
JoinItems(d, ks) ==
    IF ks = <<>> THEN ""
    ELSE LET item == "\"" \o Head(ks) \o "\": \"" \o d[Head(ks)] \o "\""
         IN  IF Len(ks) = 1 THEN item ELSE item \o ", " \o JoinItems(d, Tail(ks))

\* json.dumps(d, sort_keys=True) of a dict of strings
json_dumps(d) ==
    "{" \o JoinItems(d, SelectSeq(KeyOrder, LAMBDA k : k \in DOMAIN d)) \o "}"

_generate_cache_key(ticker, data_type, kwargs) ==
    md5(json_dumps(key_data(ticker, data_type, kwargs)))

\* Python's  a in b  for strings
Contains(a, b) ==
    LET ca == Chars(a)
        cb == Chars(b)
    IN  \E i \in 0..(Len(cb) - Len(ca)) :
            \A j \in 1..Len(ca) : cb[i + j] = ca[j]

-----------------------------------------------------------------------------
(* DataCache, as operators on the two session maps dc (data_cache) and       *)
(* ts (cache_timestamps) at clock value t                                    *)

\* Mutant: the age test reversed
_is_cache_valid_reversed(ts, cache_key, t) ==
    IF cache_key \notin DOMAIN ts THEN FALSE
    ELSE (t - ts[cache_key]) > cache_ttl

\* Mutant: an entry of age exactly ttl still counts as valid
_is_cache_valid_inclusive(ts, cache_key, t) ==
    IF cache_key \notin DOMAIN ts THEN FALSE
    ELSE (t - ts[cache_key]) <= cache_ttl

\* Mutant: an entry stays valid for twice the ttl
_is_cache_valid_twice_ttl(ts, cache_key, t) ==
    IF cache_key \notin DOMAIN ts THEN FALSE
    ELSE (t - ts[cache_key]) < 2 * cache_ttl

_is_cache_valid(ts, cache_key, t) ==
    IF cache_key \notin DOMAIN ts THEN FALSE
    ELSE (t - ts[cache_key]) < cache_ttl

\* dict.get(key): None for a key that is not stored
DictGet(d, k) == IF k \in DOMAIN d THEN d[k] ELSE None

get(dc, ts, t, ticker, data_type, kwargs) ==
    LET cache_key == _generate_cache_key(ticker, data_type, kwargs)
    IN  IF ~_is_cache_valid(ts, cache_key, t) THEN None
        ELSE DictGet(dc, cache_key)

\* d[k] = v
DictSet(d, k, v) == [x \in DOMAIN d \cup {k} |-> IF x = k THEN v ELSE d[x]]
\* d.pop(k, None) for every k of ks
DictPop(d, ks) == [x \in DOMAIN d \ ks |-> d[x]]

\* Mutant: set stores the value and leaves the timestamp map as it was
set_without_timestamp(dc, ts, t, ticker, data_type, data, kwargs) ==
    LET cache_key == _generate_cache_key(ticker, data_type, kwargs)
    IN  [ts |-> ts, dc |-> DictSet(dc, cache_key, data)]

\* Mutant: set on a stored key keeps the timestamp of the first set
set_keeps_first_timestamp(dc, ts, t, ticker, data_type, data, kwargs) ==
    LET cache_key == _generate_cache_key(ticker, data_type, kwargs)
    IN  [ts |-> IF cache_key \in DOMAIN ts THEN ts ELSE DictSet(ts, cache_key, t),
         dc |-> DictSet(dc, cache_key, data)]

\* Mutant: set stamps the entry with the time at which it will expire
set_stamps_expiry(dc, ts, t, ticker, data_type, data, kwargs) ==
    LET cache_key == _generate_cache_key(ticker, data_type, kwargs)
    IN  [ts |-> DictSet(ts, cache_key, t + cache_ttl), dc |-> DictSet(dc, cache_key, data)]

\* set returns the two maps after the call
set(dc, ts, t, ticker, data_type, data, kwargs) ==
    LET cache_key == _generate_cache_key(ticker, data_type, kwargs)
    IN  [ts |-> DictSet(ts, cache_key, t), dc |-> DictSet(dc, cache_key, data)]

EmptyDict == [x \in {} |-> None]

\* Mutant: a full clear forgets the timestamps and keeps the values
clear_timestamps_only(dc, ts, ticker, data_type) ==
    IF ticker = None /\ data_type = None
    THEN [ts |-> EmptyDict, dc |-> dc]
    ELSE [ts |-> ts, dc |-> dc]

\* Mutant: a partial clear pops the values and leaves the timestamps
clear_values_only(dc, ts, ticker, data_type) ==
    IF ticker = None /\ data_type = None
    THEN [ts |-> EmptyDict, dc |-> EmptyDict]
    ELSE LET keys_to_remove ==
                 {cache_key \in DOMAIN dc :
                     /\ ~(ticker # None /\ ticker.s # "" /\ ~Contains(ticker.s, cache_key))
                     /\ ~(data_type # None /\ data_type.s # ""
                            /\ ~Contains(data_type.s, cache_key))}
         IN  [ts |-> ts, dc |-> DictPop(dc, keys_to_remove)]

\* clear; an argument that is not given is None
clear(dc, ts, ticker, data_type) ==
    IF ticker = None /\ data_type = None
    THEN [ts |-> EmptyDict, dc |-> EmptyDict]
    ELSE LET keys_to_remove ==
                 {cache_key \in DOMAIN dc :
                     /\ ~(ticker # None /\ ticker.s # "" /\ ~Contains(ticker.s, cache_key))
                     /\ ~(data_type # None /\ data_type.s # ""
                            /\ ~Contains(data_type.s, cache_key))}
         IN  [ts |-> DictPop(ts, keys_to_remove), dc |-> DictPop(dc, keys_to_remove)]

\* Mutant: every stored entry is counted as valid
get_cache_stats_ignores_age(dc, ts, t) ==
    [cache_ttl |-> cache_ttl, total_cached |-> Cardinality(DOMAIN dc),
     valid_cached |-> Cardinality(DOMAIN dc), expired_cached |-> 0]

get_cache_stats(dc, ts, t) ==
    LET total_cached == Cardinality(DOMAIN dc)
        valid_cached == Cardinality({key \in DOMAIN dc : _is_cache_valid(ts, key, t)})
    IN  [cache_ttl |-> cache_ttl, total_cached |-> total_cached,
         valid_cached |-> valid_cached, expired_cached |-> total_cached - valid_cached]

\* A str argument
Str(s) == [type |-> "str", s |-> s]


-----------------------------------------------------------------------------
(* The files on disk *)

\* Columns of company_info.csv that the aggregator reads without a check.
RequiredInfoCols == {"company_name", "sector", "industry", "sector_category",
                     "market_cap", "market_cap_billion", "company_size"}

\* One data row; the cell values play no part in the model.
InfoRow(cols) == [c \in cols |-> 1]

InfoOk        == Csv(RequiredInfoCols \cup {"employees"},
                     <<InfoRow(RequiredInfoCols \cup {"employees"})>>)
InfoNoEmp     == Csv(RequiredInfoCols, <<InfoRow(RequiredInfoCols)>>)
InfoNoCol     == Csv(RequiredInfoCols \ {"sector_category"},
                     <<InfoRow(RequiredInfoCols \ {"sector_category"})>>)
InfoHeaderOnly == Csv(RequiredInfoCols, <<>>)

\* The company_info.csv files of the model
InfoFiles == {NoFile, Malformed, InfoHeaderOnly, InfoNoCol, InfoNoEmp, InfoOk}

Obs(d, c) == [Date |-> d, Close |-> c]

\* Closes 100, 102, 101, 105, 110 on days 1..5, written with the last day first.
PriceFive   == Csv({"Date", "Close"},
                   <<Obs(5, 110), Obs(1, 100), Obs(2, 102), Obs(3, 101), Obs(4, 105)>>)
PriceOne    == Csv({"Date", "Close"}, <<Obs(1, 200)>>)
PriceNoDate == Csv({"Close"}, <<[Close |-> 100], [Close |-> 110]>>)

\* The stock_data.csv files of the model (closes are positive prices)
PriceFiles == {NoFile, PriceNoDate, PriceOne, PriceFive}

\* A snapshot of the data directory: fs.dirs are the names of its
\* sub-directories, fs.files[name][artifact] is the file
\* data_dir / name / artifact / artifact.csv (NoFile when it does not exist).
Fs(ds, fl) == [dirs |-> ds, files |-> fl]

NoFiles == [company_info |-> NoFile, stock_data |-> NoFile]

\* The snapshot a call sees that looks at one file only
OneFile(ticker, artifact, f) ==
    Fs({ticker}, [n \in DirNames |->
                    IF n = ticker THEN [NoFiles EXCEPT ![artifact] = f] ELSE NoFiles])

\* Path.exists()
exists(fs, name, artifact) == name \in fs.dirs /\ fs.files[name][artifact] # NoFile

\* pd.read_csv
read_csv(f) == IF f.parses THEN DataFrame(f.columns, f.rows) ELSE Raised

-----------------------------------------------------------------------------
(* StockDataLoader *)

\* rows with r put after the last row whose Date is not later than r's
RECURSIVE InsertByDate(_, _)
InsertByDate(r, rows) ==
    IF rows = <<>> THEN <<r>>
    ELSE IF r.Date < Head(rows).Date THEN <<r>> \o rows
    ELSE <<Head(rows)>> \o InsertByDate(r, Tail(rows))

RECURSIVE SortRows(_)
SortRows(rows) ==
    IF rows = <<>> THEN <<>>
    ELSE InsertByDate(rows[Len(rows)], SortRows(SubSeq(rows, 1, Len(rows) - 1)))

\* Mutant: the rows stay in file order
sort_values_file_order(df) == df

\* df.sort_values('Date')
sort_values(df) == DataFrame(df.columns, SortRows(df.rows))

\* Mutant: a missing price file is reported as an error
load_stock_data_raises(fs, ticker) ==
    IF ~exists(fs, ticker, "stock_data") THEN Raised
    ELSE LET df == read_csv(fs.files[ticker].stock_data)
         IN  IF df = Raised THEN None
             ELSE IF "Date" \notin df.columns THEN None
             ELSE sort_values(df)

load_stock_data(fs, ticker) ==
    IF ~exists(fs, ticker, "stock_data") THEN None
    ELSE LET df == read_csv(fs.files[ticker].stock_data)
         IN  IF df = Raised THEN None
             ELSE IF "Date" \notin df.columns THEN None
             ELSE sort_values(df)

load_company_info(fs, ticker) ==
    IF ~exists(fs, ticker, "company_info") THEN None
    ELSE LET df == read_csv(fs.files[ticker].company_info)
         IN  IF df = Raised THEN None ELSE df

\* data_dir / ticker / "technical_data" / "technical_indicators.csv" and
\* data_dir / ticker / "financial_data" / "financial_ratios.csv" are the
\* artifacts technical_indicators and financial_ratios of a snapshot.
load_technical_indicators(fs, ticker) ==
    IF ~exists(fs, ticker, "technical_indicators") THEN None
    ELSE LET df == read_csv(fs.files[ticker].technical_indicators)
         IN  IF df = Raised THEN None                     \* except: return None
             ELSE IF "Date" \notin df.columns THEN None   \* KeyError, caught
             ELSE sort_values(df)

\* Mutant: the failure of pd.read_csv reaches the caller
load_financial_ratios_unguarded(fs, ticker) ==
    IF ~exists(fs, ticker, "financial_ratios") THEN None
    ELSE read_csv(fs.files[ticker].financial_ratios)

load_financial_ratios(fs, ticker) ==
    IF ~exists(fs, ticker, "financial_ratios") THEN None
    ELSE LET df == read_csv(fs.files[ticker].financial_ratios)
         IN  IF df = Raised THEN None ELSE df

List(items) == [type |-> "list", items |-> items]

\* Mutant: the directories are listed anew at every call
get_available_tickers_relists(memo, fs) ==
    List(sorted({d \in fs.dirs : isdigit(d)}))

\* The list get_available_tickers returns, given the memo; the caller stores it.
get_available_tickers(memo, fs) ==
    IF memo = None
    THEN List(sorted({d \in fs.dirs : isdigit(d)}))
    ELSE memo

\* A call of the Ticker Store or a read of a file, as recorded in ev.reads
Read(ticker, artifact) == [ticker |-> ticker, artifact |-> artifact]

-----------------------------------------------------------------------------
(* OptimizedSectorLoader.load_sector_data: the loop body for one ticker.     *)
(* st carries the session maps (dc, ts), the rows appended so far, the files *)
(* read (reads) and the calls of cache.set (sets).                           *)

SetCall(ticker, data_type, kwargs, data) ==
    [ticker |-> ticker, data_type |-> data_type, kwargs |-> kwargs, data |-> data]

\* latest_price and price_change of a price frame (or None); the float
\* quotient is kept exact.
PriceFields(stock_data) ==
    IF stock_data # None /\ stock_data.rows # <<>>
    THEN LET close_column == IF "Close" \in stock_data.columns THEN "Close" ELSE "close"
             n == Len(stock_data.rows)
         IN  IF close_column \in stock_data.columns
             THEN LET last == stock_data.rows[n][close_column]
                  IN  [latest_price |-> last,
                       price_change |->
                           IF n >= 2
                           THEN LET prev == stock_data.rows[n - 1][close_column]
                                IN  Rat((last - prev) * 100, prev)
                           ELSE Zero]
             ELSE [latest_price |-> 0, price_change |-> Zero]
    ELSE [latest_price |-> 0, price_change |-> Zero]

SectorRow(ticker, df, price) ==
    [ticker |-> ticker,
     price_change |-> price.price_change,
     company_name |-> df.rows[1].company_name,
     sector |-> df.rows[1].sector,
     industry |-> df.rows[1].industry,
     sector_category |-> df.rows[1].sector_category,
     market_cap |-> df.rows[1].market_cap,
     market_cap_billion |-> df.rows[1].market_cap_billion,
     company_size |-> df.rows[1].company_size,
     current_price |-> price.latest_price,
     employees |-> IF "employees" \in df.columns THEN df.rows[1].employees ELSE 0]

\* Mutant: the handler of a failed ticker throws away the rows collected so far
Continue_discards_rows(st) == [st EXCEPT !.rows = <<>>]

\* except Exception: print(...); continue
Continue(st) == st

\* Mutant: a ticker without price data gets no row
ProcessTicker_needs_price(st, fs, t, ticker) ==
    IF ~exists(fs, ticker, "company_info") THEN st
    ELSE
      LET df  == read_csv(fs.files[ticker].company_info)
          st1 == [st EXCEPT !.reads = Append(@, Read(ticker, "company_info"))]
      IN
      IF df = Raised THEN Continue(st1)
      ELSE IF df.rows = <<>> \/ df.columns = {} THEN st1
      ELSE
        LET cached == get(st.dc, st.ts, t, ticker, "stock_data", <<>>)
            stock_data == IF cached = None THEN load_stock_data(fs, ticker) ELSE cached
            st2 == IF cached = None
                   THEN [st1 EXCEPT !.reads = Append(@, Read(ticker, "stock_data"))]
                   ELSE st1
            st3 == IF cached = None /\ stock_data # None
                   THEN LET c == set(st.dc, st.ts, t, ticker, "stock_data",
                                     stock_data, <<>>)
                        IN  [st2 EXCEPT !.dc = c.dc, !.ts = c.ts,
                                        !.sets = Append(@, SetCall(ticker, "stock_data",
                                                                   <<>>, stock_data))]
                   ELSE st2
            price == PriceFields(stock_data)
        IN
        IF ~(RequiredInfoCols \subseteq df.columns) \/ stock_data = None THEN Continue(st3)
        ELSE [st3 EXCEPT !.rows = Append(@, SectorRow(ticker, df, price))]

ProcessTicker(st, fs, t, ticker) ==
    IF ~exists(fs, ticker, "company_info") THEN st
    ELSE
      LET df  == read_csv(fs.files[ticker].company_info)
          st1 == [st EXCEPT !.reads = Append(@, Read(ticker, "company_info"))]
      IN
      IF df = Raised THEN Continue(st1)                   \* read_csv raises
      ELSE IF df.rows = <<>> \/ df.columns = {} THEN st1  \* df.empty
      ELSE
        LET cached == get(st.dc, st.ts, t, ticker, "stock_data", <<>>)
            stock_data == IF cached = None THEN load_stock_data(fs, ticker) ELSE cached
            st2 == IF cached = None
                   THEN [st1 EXCEPT !.reads = Append(@, Read(ticker, "stock_data"))]
                   ELSE st1
            st3 == IF cached = None /\ stock_data # None
                   THEN LET c == set(st.dc, st.ts, t, ticker, "stock_data",
                                     stock_data, <<>>)
                        IN  [st2 EXCEPT !.dc = c.dc, !.ts = c.ts,
                                        !.sets = Append(@, SetCall(ticker, "stock_data",
                                                                   <<>>, stock_data))]
                   ELSE st2
            price == PriceFields(stock_data)
        IN
        IF ~(RequiredInfoCols \subseteq df.columns) THEN Continue(st3)  \* KeyError
        ELSE [st3 EXCEPT !.rows = Append(@, SectorRow(ticker, df, price))]

RECURSIVE ProcessBatch(_, _, _, _)
ProcessBatch(st, fs, t, batch_tickers) ==
    IF batch_tickers = <<>> THEN st
    ELSE LET done == ProcessTicker(st, fs, t, Head(batch_tickers))
         IN  \* the test makes TLC compute done before it goes on
             IF Len(done.rows) >= 0 THEN ProcessBatch(done, fs, t, Tail(batch_tickers))
             ELSE done

Min(a, b) == IF a < b THEN a ELSE b

\* Mutant: each batch begins with the last ticker of the batch before it
RECURSIVE ProcessBatches_overlapping(_, _, _, _, _)
ProcessBatches_overlapping(st, fs, t, available_tickers, i) ==
    IF i >= Len(available_tickers) THEN st
    ELSE LET batch_tickers ==
                 SubSeq(available_tickers, IF i = 0 THEN 1 ELSE i,
                        Min(i + batch_size, Len(available_tickers)))
         IN  ProcessBatches_overlapping(ProcessBatch(st, fs, t, batch_tickers), fs, t,
                                        available_tickers, i + batch_size)

\* for i in range(0, len(available_tickers), batch_size)
RECURSIVE ProcessBatches(_, _, _, _, _)
ProcessBatches(st, fs, t, available_tickers, i) ==
    IF i >= Len(available_tickers) THEN st
    ELSE LET batch_tickers ==
                 SubSeq(available_tickers, i + 1,
                        Min(i + batch_size, Len(available_tickers)))
         IN  ProcessBatches(ProcessBatch(st, fs, t, batch_tickers), fs, t,
                            available_tickers, i + batch_size)

\* pd.DataFrame(sector_data)
SectorTable(rows) ==
    DataFrame(IF rows = <<>> THEN {} ELSE DOMAIN rows[1], rows)

\* The rebuild of load_sector_data at clock value t
Rebuild(dc, ts, memo, fs, t) ==
    ProcessBatches([rows |-> <<>>, ts |-> ts, dc |-> dc,
                    reads |-> <<Read("*", "get_available_tickers")>>, sets |-> <<>>],
                   fs, t, get_available_tickers(memo, fs).items, 0)

-----------------------------------------------------------------------------
(* Inputs of the calls *)

Kinds == {"stock_data", "company_info"}

\* The keyword arguments a caller passes
KwargChoices == {<<>>, << <<"period", "1y">> >>}

\* The frames the Ticker Store can return for a data kind
FramesOf(data_type) ==
    IF data_type = "stock_data"
    THEN {sort_values(read_csv(f)) :
             f \in {g \in PriceFiles : g # NoFile /\ "Date" \in g.columns}}
    ELSE {read_csv(f) : f \in {g \in InfoFiles : g # NoFile /\ g.parses}}

\* Every content of the ticker directories
AllFiles == [DirNames -> [company_info : InfoFiles, stock_data : PriceFiles]]
Snapshots == {Fs(DirNames, fl) : fl \in {g \in AllFiles : g["logs"] = NoFiles}}

\* Contents with every company_info.csv complete
GoodInfoSnapshots ==
    {fs \in Snapshots : \A n \in Tickers : fs.files[n].company_info = InfoOk}

NoFs == Fs({}, [n \in DirNames |-> NoFiles])

\* The record of a call: arguments, result, Ticker Store calls and file reads,
\* calls of cache.set, the cache keys it removed, the disk content it saw,
\* whether the sector table was rebuilt, and the age the sector table had when
\* the call began (None without a table).
Call(op, args, ret, reads, sets, removed, fs, rebuilt, table_age) ==
    [fs |-> fs, reads |-> reads, sets |-> sets, op |-> op, args |-> args,
     ret |-> ret, removed |-> removed, rebuilt |-> rebuilt, table_age |-> table_age]

NoArgs == [none |-> TRUE]
NoCall == Call("none", NoArgs, None, <<>>, <<>>, {}, NoFs, FALSE, None)

\* The record of a call of the cache or of a loader that reads one file
CacheCall(op, args, ret, reads, sets, removed, fs) ==
    Call(op, args, ret, reads, sets, removed, fs, FALSE, None)

KeyArgs(ticker, data_type, kwargs) ==
    [ticker |-> ticker, data_type |-> data_type, kwargs |-> kwargs]

-----------------------------------------------------------------------------
(* Initial state: a session whose maps were initialised by                   *)
(* DataCache.__init__, loaders just constructed.                             *)

Init ==
    /\ now = StartTime
    /\ data_cache = EmptyDict
    /\ cache_timestamps = EmptyDict
    /\ _available_tickers = None
    /\ _sector_data_cache = None
    /\ _last_sector_load_time = 0
    /\ other_session = [data_cache |-> EmptyDict, cache_timestamps |-> EmptyDict,
                        initialised |-> FALSE]
    /\ ev = NoCall

-----------------------------------------------------------------------------
(* The clock *)

Idle == ev = NoCall

Advance(d) ==
    /\ Idle
    /\ now + d <= StartTime + MaxElapsed
    /\ now' = now + d
    /\ UNCHANGED <<cacheVars, sectorVars, _available_tickers, other_session, ev>>

\* The caller takes the result of the call.
Return ==
    /\ ~Idle
    /\ ev' = NoCall
    /\ UNCHANGED <<now, cacheVars, sectorVars, _available_tickers, other_session>>

-----------------------------------------------------------------------------
(* DataCache *)

\* Mutant: a get that finds the entry expired deletes it
Get_purges_expired(ticker, data_type, kwargs) ==
    LET K == _generate_cache_key(ticker, data_type, kwargs)
        old == IF K \in DOMAIN data_cache /\ K \in DOMAIN cache_timestamps
                  /\ ~_is_cache_valid(cache_timestamps, K, now)
               THEN {K} ELSE {}
    IN  /\ Idle
        /\ ev' = CacheCall("get", KeyArgs(ticker, data_type, kwargs),
                           get(data_cache, cache_timestamps, now, ticker, data_type, kwargs),
                           <<>>, <<>>, {}, NoFs)
        /\ data_cache' = DictPop(data_cache, old)
        /\ cache_timestamps' = DictPop(cache_timestamps, old)
        /\ UNCHANGED <<now, sectorVars, _available_tickers, other_session>>

Get(ticker, data_type, kwargs) ==
    /\ Idle
    /\ ev' = CacheCall("get", KeyArgs(ticker, data_type, kwargs),
                       get(data_cache, cache_timestamps, now, ticker, data_type, kwargs),
                       <<>>, <<>>, {}, NoFs)
    /\ UNCHANGED <<now, cacheVars, sectorVars, _available_tickers, other_session>>

Set(ticker, data_type, data, kwargs) ==
    LET c == set(data_cache, cache_timestamps, now, ticker, data_type, data, kwargs)
    IN  /\ Idle
        /\ Cardinality(DOMAIN c.dc) <= MaxEntries
        /\ data_cache' = c.dc
        /\ cache_timestamps' = c.ts
        /\ ev' = CacheCall("set", KeyArgs(ticker, data_type, kwargs), None, <<>>,
                           <<SetCall(ticker, data_type, kwargs, data)>>, {}, NoFs)
        /\ UNCHANGED <<now, sectorVars, _available_tickers, other_session>>

\* Mutant: clearing the shared cache also drops the aggregator's table
Clear_drops_table(ticker, data_type) ==
    LET c == clear(data_cache, cache_timestamps, ticker, data_type)
    IN  /\ Idle
        /\ data_cache' = c.dc
        /\ cache_timestamps' = c.ts
        /\ _sector_data_cache' = None
        /\ _last_sector_load_time' = 0
        /\ ev' = CacheCall("clear", [ticker |-> ticker, data_type |-> data_type],
                           None, <<>>, <<>>, DOMAIN data_cache \ DOMAIN c.dc, NoFs)
        /\ UNCHANGED <<now, _available_tickers, other_session>>

Clear(ticker, data_type) ==
    LET c == clear(data_cache, cache_timestamps, ticker, data_type)
    IN  /\ Idle
        /\ data_cache' = c.dc
        /\ cache_timestamps' = c.ts
        /\ ev' = CacheCall("clear", [ticker |-> ticker, data_type |-> data_type],
                           None, <<>>, <<>>, DOMAIN data_cache \ DOMAIN c.dc, NoFs)
        /\ UNCHANGED <<now, sectorVars, _available_tickers, other_session>>

GetCacheStats ==
    /\ Idle
    /\ ev' = CacheCall("get_cache_stats", NoArgs,
                       get_cache_stats(data_cache, cache_timestamps, now), <<>>, <<>>,
                       {}, NoFs)
    /\ UNCHANGED <<now, cacheVars, sectorVars, _available_tickers, other_session>>

-----------------------------------------------------------------------------
(* DataCache called in a second session.  get_data_cache is a                *)
(* st.cache_resource: every session gets the one DataCache object, whose     *)
(* constructor initialised the maps of the session that ran it (session 1);  *)
(* the methods read and write st.session_state of the session that calls.    *)
(* ss is a session state: initialised says whether the attributes data_cache *)
(* and cache_timestamps exist in it.                                         *)

SessionState(initialised, dc, ts) ==
    [data_cache |-> dc, cache_timestamps |-> ts, initialised |-> initialised]

\* A session state in which DataCache._init_cache never ran
Uninitialised == SessionState(FALSE, EmptyDict, EmptyDict)

\* Mutant: st.session_state is one object for all sessions
session_state_shared(sid) == SessionState(TRUE, data_cache, cache_timestamps)

\* st.session_state as the call made in session sid sees it
session_state(sid) ==
    IF sid = 1 THEN SessionState(TRUE, data_cache, cache_timestamps)
    ELSE other_session

\* The methods of DataCache on a session state: the result (Raised for the
\* AttributeError of a missing attribute) and the session state afterwards
SessionGet(ss, t, ticker, data_type, kwargs) ==
    [ret |-> IF ~ss.initialised THEN Raised
             ELSE get(ss.data_cache, ss.cache_timestamps, t, ticker, data_type, kwargs),
     ss |-> ss]

SessionSet(ss, t, ticker, data_type, data, kwargs) ==
    IF ~ss.initialised THEN [ret |-> Raised, ss |-> ss]
    ELSE LET c == set(ss.data_cache, ss.cache_timestamps, t, ticker, data_type, data,
                      kwargs)
         IN  [ret |-> None, ss |-> SessionState(TRUE, c.dc, c.ts)]

SessionClear(ss, ticker, data_type) ==
    IF ticker = None /\ data_type = None
    THEN [ret |-> None, ss |-> SessionState(TRUE, EmptyDict, EmptyDict)]
    ELSE IF ~ss.initialised THEN [ret |-> Raised, ss |-> ss]
    ELSE LET c == clear(ss.data_cache, ss.cache_timestamps, ticker, data_type)
         IN  [ret |-> None, ss |-> SessionState(TRUE, c.dc, c.ts)]

SessionGetCacheStats(ss, t) ==
    [ret |-> IF ~ss.initialised THEN Raised
             ELSE get_cache_stats(ss.data_cache, ss.cache_timestamps, t),
     ss |-> ss]

\* The arguments of a call made in the second session
InSession(args, sid) == [x \in DOMAIN args \cup {"session"} |->
                            IF x = "session" THEN sid ELSE args[x]]

OtherGet(ticker, data_type, kwargs) ==
    LET r == SessionGet(session_state(2), now, ticker, data_type, kwargs)
    IN  /\ Idle
        /\ other_session' = r.ss
        /\ ev' = CacheCall("get", InSession(KeyArgs(ticker, data_type, kwargs), 2),
                           r.ret, <<>>, <<>>, {}, NoFs)
        /\ UNCHANGED <<now, cacheVars, sectorVars, _available_tickers>>

OtherSet(ticker, data_type, data, kwargs) ==
    LET r == SessionSet(session_state(2), now, ticker, data_type, data, kwargs)
    IN  /\ Idle
        /\ Cardinality(DOMAIN r.ss.data_cache) <= MaxEntries
        /\ other_session' = r.ss
        /\ ev' = CacheCall("set", InSession(KeyArgs(ticker, data_type, kwargs), 2),
                           r.ret, <<>>,
                           IF r.ret = Raised THEN <<>>
                           ELSE <<SetCall(ticker, data_type, kwargs, data)>>, {}, NoFs)
        /\ UNCHANGED <<now, cacheVars, sectorVars, _available_tickers>>

OtherClear(ticker, data_type) ==
    LET ss == session_state(2)
        r  == SessionClear(ss, ticker, data_type)
    IN  /\ Idle
        /\ other_session' = r.ss
        /\ ev' = CacheCall("clear",
                           InSession([ticker |-> ticker, data_type |-> data_type], 2),
                           r.ret, <<>>, <<>>,
                           DOMAIN ss.data_cache \ DOMAIN r.ss.data_cache, NoFs)
        /\ UNCHANGED <<now, cacheVars, sectorVars, _available_tickers>>

OtherGetCacheStats ==
    LET r == SessionGetCacheStats(session_state(2), now)
    IN  /\ Idle
        /\ other_session' = r.ss
        /\ ev' = CacheCall("get_cache_stats", InSession(NoArgs, 2), r.ret, <<>>, <<>>,
                           {}, NoFs)
        /\ UNCHANGED <<now, cacheVars, sectorVars, _available_tickers>>

-----------------------------------------------------------------------------
(* StockDataLoader, called directly; f is the price file it finds *)

StoreLoadStockData(ticker, f) ==
    LET fs == OneFile(ticker, "stock_data", f)
    IN  /\ Idle
        /\ ev' = CacheCall("StockDataLoader.load_stock_data", [ticker |-> ticker],
                           load_stock_data(fs, ticker), <<Read(ticker, "stock_data")>>,
                           <<>>, {}, fs)
        /\ UNCHANGED <<now, cacheVars, sectorVars, _available_tickers, other_session>>

\* The snapshot with the one file f as artifact of the directory name, which
\* exists when present holds
OneArtifact(name, present, artifact, f) ==
    Fs(IF present THEN {name} ELSE {},
       [n \in DirNames |-> [a \in {artifact} |-> IF n = name /\ present THEN f ELSE NoFile]])

StoreLoad(op, ticker, artifact, fs, ret) ==
    /\ Idle
    /\ ev' = CacheCall(op, [ticker |-> ticker, artifact |-> artifact], ret,
                       <<Read(ticker, artifact)>>, <<>>, {}, fs)
    /\ UNCHANGED <<now, cacheVars, sectorVars, _available_tickers, other_session>>

StoreLoadPrice(ticker, present, f) ==
    LET fs == OneArtifact(ticker, present, "stock_data", f)
    IN  StoreLoad("StockDataLoader.load_stock_data", ticker, "stock_data", fs,
                  load_stock_data(fs, ticker))

StoreLoadCompanyInfo(ticker, present, f) ==
    LET fs == OneArtifact(ticker, present, "company_info", f)
    IN  StoreLoad("StockDataLoader.load_company_info", ticker, "company_info", fs,
                  load_company_info(fs, ticker))

StoreLoadTechnicalIndicators(ticker, present, f) ==
    LET fs == OneArtifact(ticker, present, "technical_indicators", f)
    IN  StoreLoad("StockDataLoader.load_technical_indicators", ticker,
                  "technical_indicators", fs, load_technical_indicators(fs, ticker))

StoreLoadFinancialRatios(ticker, present, f) ==
    LET fs == OneArtifact(ticker, present, "financial_ratios", f)
    IN  StoreLoad("StockDataLoader.load_financial_ratios", ticker, "financial_ratios", fs,
                  load_financial_ratios(fs, ticker))

-----------------------------------------------------------------------------
(* LazyDataLoader *)

\* Mutant: the cache is not consulted, every load goes to the Ticker Store
LazyLoad_always_reads(dc, ts, t, ticker, data_type, kwargs, loaded) ==
    IF loaded # None
    THEN LET c == set(dc, ts, t, ticker, data_type, loaded, kwargs)
         IN  [ts |-> c.ts, dc |-> c.dc, reads |-> <<Read(ticker, data_type)>>,
              sets |-> <<SetCall(ticker, data_type, kwargs, loaded)>>,
              ret |-> loaded]
    ELSE [ts |-> ts, dc |-> dc, reads |-> <<Read(ticker, data_type)>>,
          sets |-> <<>>, ret |-> loaded]

\* The read-through shared by load_stock_data and load_company_info; loaded is
\* what the Ticker Store returns if it is called.  Gives the result, the maps
\* afterwards, the Ticker Store calls and the cache.set calls.
LazyLoad(dc, ts, t, ticker, data_type, kwargs, loaded) ==
    LET cached_data == get(dc, ts, t, ticker, data_type, kwargs)
    IN  IF cached_data # None
        THEN [ts |-> ts, dc |-> dc, reads |-> <<>>, sets |-> <<>>, ret |-> cached_data]
        ELSE IF loaded # None
        THEN LET c == set(dc, ts, t, ticker, data_type, loaded, kwargs)
             IN  [ts |-> c.ts, dc |-> c.dc, reads |-> <<Read(ticker, data_type)>>,
                  sets |-> <<SetCall(ticker, data_type, kwargs, loaded)>>,
                  ret |-> loaded]
        ELSE [ts |-> ts, dc |-> dc, reads |-> <<Read(ticker, data_type)>>,
              sets |-> <<>>, ret |-> loaded]

LazyLoadStockData(ticker, kwargs, f) ==
    LET fs == OneFile(ticker, "stock_data", f)
        r  == LazyLoad(data_cache, cache_timestamps, now, ticker, "stock_data", kwargs,
                       load_stock_data(fs, ticker))
    IN  /\ Idle
        /\ Cardinality(DOMAIN r.dc) <= MaxEntries
        /\ data_cache' = r.dc
        /\ cache_timestamps' = r.ts
        /\ ev' = CacheCall("LazyDataLoader.load_stock_data",
                           KeyArgs(ticker, "stock_data", kwargs), r.ret, r.reads, r.sets,
                           {}, fs)
        /\ UNCHANGED <<now, sectorVars, _available_tickers, other_session>>

LazyLoadCompanyInfo(ticker, kwargs, f) ==
    LET fs == OneFile(ticker, "company_info", f)
        r  == LazyLoad(data_cache, cache_timestamps, now, ticker, "company_info", kwargs,
                       load_company_info(fs, ticker))
    IN  /\ Idle
        /\ Cardinality(DOMAIN r.dc) <= MaxEntries
        /\ data_cache' = r.dc
        /\ cache_timestamps' = r.ts
        /\ ev' = CacheCall("LazyDataLoader.load_company_info",
                           KeyArgs(ticker, "company_info", kwargs), r.ret, r.reads,
                           r.sets, {}, fs)
        /\ UNCHANGED <<now, sectorVars, _available_tickers, other_session>>

\* The methods class StockDataLoader defines
StoreMethods == {"get_available_tickers", "load_stock_data", "load_company_info",
                 "load_technical_indicators", "load_financial_ratios",
                 "get_ticker_name", "check_data_completeness", "is_data_sufficient",
                 "get_ticker_display_name", "search_tickers"}

\* self.data_loader.<method>(ticker): an AttributeError when the Ticker Store
\* has no such method
CallStore(method, fs, ticker) ==
    IF method \notin StoreMethods THEN Raised
    ELSE IF method = "load_stock_data" THEN load_stock_data(fs, ticker)
    ELSE IF method = "load_company_info" THEN load_company_info(fs, ticker)
    ELSE IF method = "load_technical_indicators" THEN load_technical_indicators(fs, ticker)
    ELSE load_financial_ratios(fs, ticker)

\* The read-through with a Ticker Store call that may raise: the exception
\* leaves the method before cache.set
LazyCall(dc, ts, t, ticker, data_type, kwargs, loaded) ==
    IF get(dc, ts, t, ticker, data_type, kwargs) = None /\ loaded = Raised
    THEN [ts |-> ts, dc |-> dc, reads |-> <<Read(ticker, data_type)>>,
          sets |-> <<>>, ret |-> Raised]
    ELSE LazyLoad(dc, ts, t, ticker, data_type, kwargs, loaded)

\* The Ticker Store method load_financial_data picks for a data_type (None:
\* the final else, which returns None)
FinancialMethod(data_type) ==
    CASE data_type = "income_statement" -> Str("load_income_statement")
      [] data_type = "balance_sheet" -> Str("load_balance_sheet")
      [] data_type = "cashflow" -> Str("load_cashflow")
      [] data_type = "financial_ratios" -> Str("load_financial_ratios")
      [] OTHER -> None

LazyStep(op, ticker, data_type, kwargs, fs, r) ==
    /\ Idle
    /\ Cardinality(DOMAIN r.dc) <= MaxEntries
    /\ data_cache' = r.dc
    /\ cache_timestamps' = r.ts
    /\ ev' = CacheCall(op, KeyArgs(ticker, data_type, kwargs), r.ret, r.reads, r.sets,
                       {}, fs)
    /\ UNCHANGED <<now, sectorVars, _available_tickers, other_session>>

\* f is the file of the artifact data_type in the ticker's directory
LazyLoadFinancialData(ticker, data_type, kwargs, f) ==
    LET kind == "financial_" \o data_type
        fs == OneArtifact(ticker, TRUE, data_type, f)
        m  == FinancialMethod(data_type)
        cached_data == get(data_cache, cache_timestamps, now, ticker, kind, kwargs)
        r  == IF cached_data = None /\ m = None
              THEN [ts |-> cache_timestamps, dc |-> data_cache, reads |-> <<>>,
                    sets |-> <<>>, ret |-> None]
              ELSE LET loaded == IF m = None THEN None ELSE CallStore(m.s, fs, ticker)
                       c == LazyCall(data_cache, cache_timestamps, now, ticker, kind,
                                     kwargs, loaded)
                   IN  [c EXCEPT !.reads = IF @ = <<>> THEN <<>>
                                           ELSE <<Read(ticker, data_type)>>]
    IN  LazyStep("LazyDataLoader.load_financial_data", ticker, kind, kwargs, fs, r)

LazyLoadDividendData(ticker, kwargs, f) ==
    LET fs == OneArtifact(ticker, TRUE, "dividend_data", f)
    IN  LazyStep("LazyDataLoader.load_dividend_data", ticker, "dividend_data", kwargs, fs,
                 LazyCall(data_cache, cache_timestamps, now, ticker, "dividend_data",
                          kwargs, CallStore("load_dividend_data", fs, ticker)))

LazyLoadNewsData(ticker, kwargs, f) ==
    LET fs == OneArtifact(ticker, TRUE, "news_data", f)
    IN  LazyStep("LazyDataLoader.load_news_data", ticker, "news_data", kwargs, fs,
                 LazyCall(data_cache, cache_timestamps, now, ticker, "news_data",
                          kwargs, CallStore("load_news_data", fs, ticker)))

-----------------------------------------------------------------------------
(* OptimizedSectorLoader; fs is the data directory as the call finds it *)

\* Mutant: a table, once built, is returned whatever its age
UseSectorCache_no_ttl(force_reload, sector_data_cache, last_sector_load_time, current_time) ==
    /\ ~force_reload
    /\ sector_data_cache # None

\* Mutant: force_reload is not looked at
UseSectorCache_ignores_force(force_reload, sector_data_cache, last_sector_load_time, current_time) ==
    /\ sector_data_cache # None
    /\ (current_time - last_sector_load_time) < _sector_cache_ttl

\* The test that lets load_sector_data return the table it holds
UseSectorCache(force_reload, sector_data_cache, last_sector_load_time, current_time) ==
    /\ ~force_reload
    /\ sector_data_cache # None
    /\ (current_time - last_sector_load_time) < _sector_cache_ttl

TableAge == IF _sector_data_cache = None THEN None
            ELSE [type |-> "float", v |-> now - _last_sector_load_time]

\* StockDataLoader.get_available_tickers called directly; fs is the data
\* directory as the call finds it
GetAvailableTickers(fs) ==
    LET tickers == get_available_tickers(_available_tickers, fs)
    IN  /\ Idle
        /\ _available_tickers' = tickers
        /\ ev' = Call("StockDataLoader.get_available_tickers", NoArgs, tickers,
                      <<Read("*", "get_available_tickers")>>, <<>>, {}, fs, FALSE, None)
        /\ UNCHANGED <<now, cacheVars, sectorVars, other_session>>

\* Mutant: a rebuild appends the rows of the scan to the rows of the table it holds
LoadSectorData_keeps_rows(force_reload, fs) ==
    /\ Idle
    /\ IF UseSectorCache(force_reload, _sector_data_cache, _last_sector_load_time, now)
       THEN
         /\ ev' = Call("load_sector_data", [force_reload |-> force_reload],
                       _sector_data_cache, <<>>, <<>>, {}, NoFs, FALSE, TableAge)
         /\ UNCHANGED <<now, cacheVars, sectorVars, _available_tickers, other_session>>
       ELSE
         LET r == Rebuild(data_cache, cache_timestamps, _available_tickers, fs, now)
             rows == (IF _sector_data_cache = None THEN <<>> ELSE _sector_data_cache.rows)
                        \o r.rows
         IN  /\ Cardinality(DOMAIN r.dc) <= MaxEntries
             /\ _available_tickers' = get_available_tickers(_available_tickers, fs)
             /\ data_cache' = r.dc
             /\ cache_timestamps' = r.ts
             /\ _sector_data_cache' = SectorTable(rows)
             /\ _last_sector_load_time' = now
             /\ ev' = Call("load_sector_data", [force_reload |-> force_reload],
                           SectorTable(rows), r.reads, r.sets, {}, fs, TRUE, TableAge)
             /\ UNCHANGED <<now, other_session>>

LoadSectorData(force_reload, fs) ==
    /\ Idle
    /\ IF UseSectorCache(force_reload, _sector_data_cache, _last_sector_load_time, now)
       THEN
         /\ ev' = Call("load_sector_data", [force_reload |-> force_reload],
                       _sector_data_cache, <<>>, <<>>, {}, NoFs, FALSE, TableAge)
         /\ UNCHANGED <<now, cacheVars, sectorVars, _available_tickers, other_session>>
       ELSE
         LET r == Rebuild(data_cache, cache_timestamps, _available_tickers, fs, now)
         IN  /\ Cardinality(DOMAIN r.dc) <= MaxEntries
             /\ _available_tickers' = get_available_tickers(_available_tickers, fs)
             /\ data_cache' = r.dc
             /\ cache_timestamps' = r.ts
             /\ _sector_data_cache' = SectorTable(r.rows)
             /\ _last_sector_load_time' = now
             /\ ev' = Call("load_sector_data", [force_reload |-> force_reload],
                           SectorTable(r.rows), r.reads, r.sets, {}, fs, TRUE, TableAge)
             /\ UNCHANGED <<now, other_session>>

-----------------------------------------------------------------------------
(* SectorAnalysis (src/src/components/sector_analysis.py): the aggregator    *)
(* the optimised loader replaces.  It holds no state and reads every file    *)
(* itself.                                                                   *)

\* SectorAnalysis._get_available_tickers: listed anew at every call
_get_available_tickers(fs) == List(sorted({d \in fs.dirs : isdigit(d)}))

\* SectorAnalysis._load_stock_data: the frame as the file has it; a Date
\* column, when there is one, is converted and the rows stay in file order
_load_stock_data(fs, ticker) ==
    IF ~exists(fs, ticker, "stock_data") THEN None
    ELSE LET df == read_csv(fs.files[ticker].stock_data)
         IN  IF df = Raised THEN None ELSE df

\* The loop body of SectorAnalysis.load_sector_data for one ticker; st
\* carries the rows appended so far and the files read
AnalysisTicker(st, fs, ticker) ==
    IF ~exists(fs, ticker, "company_info") THEN st
    ELSE
      LET df  == read_csv(fs.files[ticker].company_info)
          st1 == [st EXCEPT !.reads = Append(@, Read(ticker, "company_info"))]
      IN
      IF df = Raised THEN st1                              \* except: continue
      ELSE IF df.rows = <<>> \/ df.columns = {} THEN st1   \* df.empty
      ELSE
        LET stock_data == _load_stock_data(fs, ticker)
            st2 == [st1 EXCEPT !.reads = Append(@, Read(ticker, "stock_data"))]
            price == PriceFields(stock_data)
        IN
        IF ~(RequiredInfoCols \subseteq df.columns) THEN st2   \* KeyError, caught
        ELSE [st2 EXCEPT !.rows = Append(@, SectorRow(ticker, df, price))]

\* for ticker in available_tickers
RECURSIVE AnalysisTickers(_, _, _)
AnalysisTickers(st, fs, available_tickers) ==
    IF available_tickers = <<>> THEN st
    ELSE AnalysisTickers(AnalysisTicker(st, fs, Head(available_tickers)), fs,
                         Tail(available_tickers))

\* SectorAnalysis.load_sector_data: the rows and the files read
AnalysisScan(fs) ==
    AnalysisTickers([rows |-> <<>>, reads |-> <<Read("*", "_get_available_tickers")>>],
                    fs, _get_available_tickers(fs).items)

AnalysisLoadSectorData(fs) ==
    LET r == AnalysisScan(fs)
    IN  /\ Idle
        /\ ev' = Call("SectorAnalysis.load_sector_data", NoArgs, SectorTable(r.rows),
                      r.reads, <<>>, {}, fs, FALSE, None)
        /\ UNCHANGED <<now, cacheVars, sectorVars, _available_tickers, other_session>>

-----------------------------------------------------------------------------
(* The cache and its read-through loader, over every key of the model *)

ClearTickers == {None} \cup {Str(t) : t \in Tickers}
ClearKinds == {None} \cup {Str(k) : k \in Kinds}

\* The company_info.csv files LazyDataLoader.load_company_info finds
LazyInfoFiles == {NoFile, Malformed, InfoNoEmp, InfoOk}
\* The values a direct set stores
SetValues(data_type) ==
    IF data_type = "stock_data" THEN FramesOf(data_type)
    ELSE {read_csv(InfoNoEmp), read_csv(InfoOk)}

NextCache ==
    \/ Advance(2 * Tick)
    \/ Return
    \/ \E t \in Tickers, k \in Kinds, kw \in KwargChoices : Get(t, k, kw)
    \/ \E t \in Tickers, k \in Kinds, kw \in KwargChoices :
          \E v \in SetValues(k) : Set(t, k, v, kw)
    \/ \E t \in ClearTickers, k \in ClearKinds : Clear(t, k)
    \/ GetCacheStats
    \/ \E t \in Tickers, f \in PriceFiles : StoreLoadStockData(t, f)
    \/ \E t \in Tickers, kw \in KwargChoices, f \in PriceFiles :
          LazyLoadStockData(t, kw, f)
    \/ \E t \in Tickers, kw \in KwargChoices, f \in LazyInfoFiles :
          LazyLoadCompanyInfo(t, kw, f)

SpecCache == Init /\ [][NextCache]_vars

(* The sector scan over every content of the data directory, at one clock    *)
(* value, with the price entries of the shared cache                         *)

NextScan ==
    \/ Return
    \/ \E force_reload \in BOOLEAN, fs \in Snapshots : LoadSectorData(force_reload, fs)
    \/ \E t \in Tickers, f \in PriceFiles : LazyLoadStockData(t, <<>>, f)
    \/ \E t \in ClearTickers : Clear(t, None)

SpecScan == Init /\ [][NextScan]_vars

(* Two sessions on the one DataCache object; each session stores a frame of  *)
(* its own                                                                   *)

OwnValue(sid) ==
    IF sid = 1 THEN sort_values(read_csv(PriceFive)) ELSE sort_values(read_csv(PriceOne))

NextSessions ==
    \/ Advance(2 * Tick)
    \/ Return
    \/ \E t \in Tickers : Get(t, "stock_data", <<>>)
    \/ \E t \in Tickers : Set(t, "stock_data", OwnValue(1), <<>>)
    \/ \E t \in ClearTickers : Clear(t, None)
    \/ GetCacheStats
    \/ \E t \in Tickers : OtherGet(t, "stock_data", <<>>)
    \/ \E t \in Tickers : OtherSet(t, "stock_data", OwnValue(2), <<>>)
    \/ \E t \in ClearTickers : OtherClear(t, None)
    \/ OtherGetCacheStats

SpecSessions == Init /\ [][NextSessions]_vars

(* The Ticker Store alone, over files that are missing, unparseable, without *)
(* a Date column, empty or well-formed, in directories that exist or not     *)

\* Files with a Date column whatever the artifact, and files of ratios
DatedFiles == PriceFiles \cup {Malformed}
RatioFiles == {NoFile, Malformed, Csv({"PER", "PBR"}, <<>>),
               Csv({"PER", "PBR"}, <<[PER |-> 12, PBR |-> 1]>>)}

NextStore ==
    \/ Advance(Tick)
    \/ Return
    \/ \E t \in DirNames, p \in BOOLEAN, f \in DatedFiles : StoreLoadPrice(t, p, f)
    \/ \E t \in DirNames, p \in BOOLEAN, f \in InfoFiles : StoreLoadCompanyInfo(t, p, f)
    \/ \E t \in DirNames, p \in BOOLEAN, f \in DatedFiles :
          StoreLoadTechnicalIndicators(t, p, f)
    \/ \E t \in DirNames, p \in BOOLEAN, f \in RatioFiles :
          StoreLoadFinancialRatios(t, p, f)

SpecStore == Init /\ [][NextStore]_vars

(* The Lazy Loader over every data kind it offers *)

FinancialTypes == {"income_statement", "balance_sheet", "cashflow", "financial_ratios",
                   "quarterly"}

NextLazy ==
    \/ Advance(2 * Tick)
    \/ Return
    \/ \E t \in Tickers, f \in PriceFiles : LazyLoadStockData(t, <<>>, f)
    \/ \E t \in Tickers, f \in LazyInfoFiles : LazyLoadCompanyInfo(t, <<>>, f)
    \/ \E t \in Tickers, d \in FinancialTypes, f \in RatioFiles :
          LazyLoadFinancialData(t, d, <<>>, f)
    \/ \E t \in Tickers, f \in RatioFiles : LazyLoadDividendData(t, <<>>, f)
    \/ \E t \in Tickers, f \in RatioFiles : LazyLoadNewsData(t, <<>>, f)
    \/ Clear(None, None)

SpecLazy == Init /\ [][NextLazy]_vars

(* The sector scan over a large data root: 50, 51 or 52 ticker directories, *)
(* one of which may have a company_info.csv that yields no row               *)

\* The first n names of the listing
FirstDirs(n) == {DirOrder[i] : i \in 1..n}

\* The data root with the first n ticker directories and the directory logs;
\* the ticker bad (None: no ticker) has the company_info.csv f, the others a
\* complete one; 7203 has a price file.
LargeRoot(n, bad, f) ==
    Fs(FirstDirs(n) \cup {"logs"},
       [d \in AllDirNames |->
           IF d \notin FirstDirs(n) THEN NoFiles
           ELSE [company_info |-> IF bad # None /\ d = bad.s THEN f ELSE InfoOk,
                 stock_data |-> IF d = "7203" THEN PriceFive ELSE NoFile]])

BadTickers == {None, Str("1064"), Str("8001"), Str("8048"), Str("8049"), Str("8050")}

LargeRoots ==
    {LargeRoot(n, bad, f) : n \in {50, 51, 52}, bad \in BadTickers,
                            f \in {NoFile, Malformed, InfoHeaderOnly, InfoNoCol}}

NextBatch ==
    \/ Return
    \/ \E force_reload \in BOOLEAN, fs \in LargeRoots : LoadSectorData(force_reload, fs)

SpecBatch == Init /\ [][NextBatch]_vars

(* The cache under keyword arguments given in either order, at one clock     *)
(* value; every set stores a value that names the call that stored it       *)

\* period and interval, alone, together in both orders, or neither
OrderedKwargs ==
    {<<>>, << <<"period", "1y">> >>, << <<"interval", "1d">> >>,
     << <<"period", "1y">>, <<"interval", "1d">> >>,
     << <<"interval", "1d">>, <<"period", "1y">> >>}

RECURSIVE Flatten(_)
Flatten(kwargs) ==
    IF kwargs = <<>> THEN <<>> ELSE Head(kwargs) \o Flatten(Tail(kwargs))

\* The value a call set(ticker, data_type, value, **kwargs) of this
\* specification stores: the list of its own arguments
TokenOf(ticker, data_type, kwargs) == List(<<ticker, data_type>> \o Flatten(kwargs))

NextKeys ==
    \/ Return
    \/ \E t \in Tickers, k \in Kinds, kw \in OrderedKwargs : Get(t, k, kw)
    \/ \E t \in Tickers, k \in Kinds, kw \in OrderedKwargs :
          Set(t, k, TokenOf(t, k, kw), kw)
    \/ Clear(None, None)

SpecKeys == Init /\ [][NextKeys]_vars

(* The two aggregators over every content of the data directory, at one      *)
(* clock value; the shared cache is filled by the rebuilds only              *)

NextCompare ==
    \/ Return
    \/ \E force_reload \in BOOLEAN, fs \in Snapshots : LoadSectorData(force_reload, fs)
    \/ \E fs \in Snapshots : AnalysisLoadSectorData(fs)
    \/ Clear(None, None)

SpecCompare == Init /\ [][NextCompare]_vars

(* The loaders over time, with price files that are rewritten at every clock *)
(* value: the close in the file is the clock value at which it was written,  *)
(* so that a price tells when it was read.  Nothing but the loaders writes   *)
(* to the shared cache (as in the program, where cache.set is called by      *)
(* LazyDataLoader and OptimizedSectorLoader only).                           *)

\* The price file as it is on disk at clock value t
StampedPrice(t) == Csv({"Date", "Close"}, <<Obs(1, t)>>)

\* The data root at clock value t: the tickers in priced have the price file
\* of that moment, every ticker has a complete company_info.csv
StampedRoot(t, priced) ==
    Fs(DirNames,
       [n \in DirNames |->
           IF n \in Tickers
           THEN [company_info |-> InfoOk,
                 stock_data |-> IF n \in priced THEN StampedPrice(t) ELSE NoFile]
           ELSE NoFiles])

NextFresh ==
    \/ Advance(Tick)
    \/ Return
    \/ \E t \in Tickers, f \in {NoFile, StampedPrice(now)} : LazyLoadStockData(t, <<>>, f)
    \/ \E force_reload \in BOOLEAN, priced \in SUBSET Tickers :
          LoadSectorData(force_reload, StampedRoot(now, priced))
    \/ \E t \in ClearTickers : Clear(t, None)

SpecFresh == Init /\ [][NextFresh]_vars

(* The listing of the tickers over data roots whose directories come and go  *)

\* Names of different lengths, one of them not a number
ListingNames == {"1064", "7203", "900", "logs"}

\* The data root with the directories ds, each ticker directory with a
\* complete company_info.csv and no price file
ListingRoot(ds) ==
    Fs(ds, [n \in ListingNames |->
               IF n \in ds /\ isdigit(n)
               THEN [company_info |-> InfoOk, stock_data |-> NoFile]
               ELSE NoFiles])

ListingRoots == {ListingRoot(ds) : ds \in SUBSET ListingNames}

NextListing ==
    \/ Return
    \/ \E fs \in ListingRoots : GetAvailableTickers(fs)
    \/ \E force_reload \in BOOLEAN, fs \in ListingRoots : LoadSectorData(force_reload, fs)

SpecListing == Init /\ [][NextListing]_vars

(* The whole system over time: the price entries of the shared cache, the    *)
(* loaders and the aggregator, with complete company-info files              *)

TimedPriceFiles == {NoFile, PriceOne, PriceFive}
TimedSnapshots ==
    {fs \in GoodInfoSnapshots :
        \A n \in Tickers : fs.files[n].stock_data \in TimedPriceFiles}

Next ==
    \/ Advance(Tick)
    \/ Return
    \/ \E t \in Tickers : Get(t, "stock_data", <<>>)
    \/ \E t \in Tickers : \E v \in SetValues("stock_data") : Set(t, "stock_data", v, <<>>)
    \/ \E t \in ClearTickers : Clear(t, None)
    \/ GetCacheStats
    \/ \E t \in Tickers, f \in TimedPriceFiles : LazyLoadStockData(t, <<>>, f)
    \/ \E force_reload \in BOOLEAN, fs \in TimedSnapshots :
          LoadSectorData(force_reload, fs)

Spec == Init /\ [][Next]_vars

-----------------------------------------------------------------------------
(* Properties of the cache (checked under SpecCache) *)

\* The keys of the model, as the arguments that derive them
KeyTuples == {KeyArgs(t, k, kw) : t \in Tickers, k \in Kinds, kw \in KwargChoices}
KeyOf(a) == _generate_cache_key(a.ticker, a.data_type, a.kwargs)
GetNow(a) == get(data_cache, cache_timestamps, now, a.ticker, a.data_type, a.kwargs)

\* The calls of cache.set for key K that the call recorded in e made
SetsOf(e, K) ==
    SelectSeq(e.sets, LAMBDA s : _generate_cache_key(s.ticker, s.data_type, s.kwargs) = K)

\* C1: a value stored by set is what get returns for that key for as long as
\* the entry is younger than ttl and no later set or clear touches the key.
\* As a step property: a step that sets the key makes get return the value
\* just set; a step that neither sets nor clears the key, taken while the key
\* holds value v stamped s, leaves get returning v at every clock value
\* now' with now' - s < ttl (and a get call in that step returns v).
C1_GetReturnsLastSet ==
    [][\A a \in KeyTuples :
         LET K  == KeyOf(a)
             ss == SetsOf(ev', K)
         IN  /\ ss # <<>> =>
                  get(data_cache', cache_timestamps', now', a.ticker, a.data_type,
                      a.kwargs) = ss[Len(ss)].data
             /\ ( /\ K \in DOMAIN data_cache
                  /\ K \in DOMAIN cache_timestamps
                  /\ ss = <<>>
                  /\ K \notin ev'.removed
                  /\ now' - cache_timestamps[K] < cache_ttl )
                => /\ get(data_cache', cache_timestamps', now', a.ticker, a.data_type,
                          a.kwargs) = data_cache[K]
                   /\ (ev'.op = "get" /\ ev'.args = a) => ev'.ret = data_cache[K]
      ]_vars

\* Witness of C1: a get that returns the stored value of an entry that is older
\* than its set and younger than ttl.
C1_Witness ==
    /\ ev.op = "get"
    /\ KeyOf(ev.args) \in DOMAIN cache_timestamps
    /\ now - cache_timestamps[KeyOf(ev.args)] > 0
    /\ now - cache_timestamps[KeyOf(ev.args)] < cache_ttl
    /\ ev.ret # None
    /\ ev.ret = data_cache[KeyOf(ev.args)]

\* C2: get returns absent when the key has no entry or when the age of its
\* entry is ttl or more.
C2_AbsentWhenUnseenOrExpired ==
    ev.op = "get" =>
        LET K == KeyOf(ev.args)
        IN  ( \/ K \notin DOMAIN cache_timestamps
              \/ now - cache_timestamps[K] >= cache_ttl )
            => ev.ret = None

\* Witness of C2: a get of an entry whose age is exactly ttl, answered absent.
C2_Witness ==
    /\ ev.op = "get"
    /\ KeyOf(ev.args) \in DOMAIN cache_timestamps
    /\ KeyOf(ev.args) \in DOMAIN data_cache
    /\ now - cache_timestamps[KeyOf(ev.args)] = cache_ttl
    /\ ev.ret = None

\* C3: after clear() without arguments the cache holds no entry: stats counts
\* zero total, valid and expired entries and get is absent for every key.
C3_ClearEmptiesCache ==
    (ev.op = "clear" /\ ev.args.ticker = None /\ ev.args.data_type = None) =>
        /\ get_cache_stats(data_cache, cache_timestamps, now) =
              [cache_ttl |-> cache_ttl, total_cached |-> 0, valid_cached |-> 0,
               expired_cached |-> 0]
        /\ DOMAIN data_cache = {}
        /\ DOMAIN cache_timestamps = {}
        /\ \A a \in KeyTuples : GetNow(a) = None

\* Witness of C3: a clear() without arguments that removed stored entries.
C3_Witness ==
    /\ ev.op = "clear"
    /\ ev.args.ticker = None
    /\ ev.args.data_type = None
    /\ Cardinality(ev.removed) = MaxEntries
    /\ DOMAIN data_cache = {}


-----------------------------------------------------------------------------
(* Properties of the Ticker Store and the Lazy Loader (checked under SpecCache) *)

LazyOps == {"LazyDataLoader.load_stock_data", "LazyDataLoader.load_company_info"}

\* The file a call of the Ticker Store or of the Lazy Loader found
FileSeen(e) ==
    e.fs.files[e.args.ticker][IF e.op = "LazyDataLoader.load_company_info"
                              THEN "company_info" ELSE "stock_data"]

\* What the Ticker Store returns for the file the call recorded in e found
StoreResult(e) ==
    IF e.op = "LazyDataLoader.load_company_info"
    THEN load_company_info(e.fs, e.args.ticker)
    ELSE load_stock_data(e.fs, e.args.ticker)

\* C6 as claimed: for a ticker without price file both the Ticker Store's
\* load_stock_data and the Lazy Loader's return absent.
C6_AbsentWithoutPriceFile ==
    ( /\ ev.op \in {"StockDataLoader.load_stock_data", "LazyDataLoader.load_stock_data"}
      /\ FileSeen(ev) = NoFile )
    => ev.ret = None

\* C6 as amended: for a ticker without price file the Ticker Store's
\* load_stock_data returns absent and no error; the Lazy Loader raises no
\* error and returns absent unless the cache holds a valid entry for the
\* requested key, and then it returns that entry.
C6_AbsentWithoutPriceFileOnMiss ==
    /\ ( /\ ev.op = "StockDataLoader.load_stock_data"
         /\ FileSeen(ev) = NoFile ) => ev.ret = None
    /\ ( /\ ev.op = "LazyDataLoader.load_stock_data"
         /\ FileSeen(ev) = NoFile )
       => /\ ev.ret # Raised
          /\ ev.ret = GetNow(ev.args)
          /\ ev.reads # <<>> => ev.ret = None

\* Witness of C6: a Lazy Loader call that missed the cache, asked the Ticker
\* Store, found no price file and returned absent.
C6_Witness ==
    /\ ev.op = "LazyDataLoader.load_stock_data"
    /\ FileSeen(ev) = NoFile
    /\ ev.reads = <<Read(ev.args.ticker, "stock_data")>>
    /\ ev.ret = None

\* The part of C8 about a hit: a Lazy Loader call that finds a valid entry
\* returns it, calls the Ticker Store not at all and writes nothing.
LazyHitStep ==
    (Idle /\ ev'.op \in LazyOps /\ GetNow(ev'.args) # None) =>
        /\ ev'.ret = GetNow(ev'.args)
        /\ ev'.reads = <<>>
        /\ ev'.sets = <<>>
        /\ UNCHANGED cacheVars

\* C8 as claimed: the hit, and of two consecutive loads of one key within ttl
\* at most one calls the Ticker Store: a load that called it leaves a valid
\* entry, which the load that follows returns without a call.
C8_HitReadsNothing ==
    [][ /\ LazyHitStep
        /\ (Idle /\ ev'.op \in LazyOps /\ ev'.reads # <<>>) =>
              get(data_cache', cache_timestamps', now', ev'.args.ticker,
                  ev'.args.data_type, ev'.args.kwargs) # None
      ]_vars

\* C8 as amended: the hit, and of two consecutive loads of one key within ttl
\* at most one calls the Ticker Store when the first returns a value: it
\* leaves that value as an entry stamped with the current time.
C8_HitReadsNothingAfterValue ==
    [][ /\ LazyHitStep
        /\ (Idle /\ ev'.op \in LazyOps /\ ev'.reads # <<>> /\ ev'.ret # None) =>
              /\ get(data_cache', cache_timestamps', now', ev'.args.ticker,
                     ev'.args.data_type, ev'.args.kwargs) = ev'.ret
              /\ cache_timestamps'[KeyOf(ev'.args)] = now'
      ]_vars

\* Witness of C8: a Lazy Loader call served from an entry stored earlier.
C8_Witness ==
    /\ ev.op \in LazyOps
    /\ ev.reads = <<>>
    /\ ev.ret # None
    /\ ev.ret = GetNow(ev.args)
    /\ now - cache_timestamps[KeyOf(ev.args)] > 0
    /\ FileSeen(ev) # NoFile
    /\ StoreResult(ev) # ev.ret

\* The Lazy Loader's methods (all of them are actions of SpecLazy, under which
\* C9 is checked), and the kinds for which class StockDataLoader has the
\* method the Lazy Loader calls
AllLazyOps == {"LazyDataLoader.load_stock_data", "LazyDataLoader.load_company_info",
               "LazyDataLoader.load_financial_data",
               "LazyDataLoader.load_dividend_data", "LazyDataLoader.load_news_data"}
KindsWithStoreMethod == {"stock_data", "company_info", "financial_financial_ratios"}

\* What the Ticker Store returns to the Lazy Loader call recorded in e, for a
\* kind whose method it has
LazyStoreResult(e) ==
    IF e.args.data_type = "financial_financial_ratios"
    THEN load_financial_ratios(e.fs, e.args.ticker)
    ELSE StoreResult(e)

\* A Lazy Loader call of any kind that finds no valid entry
LazyMissStep == Idle /\ ev'.op \in AllLazyOps /\ GetNow(ev'.args) = None

\* What C9 says of such a call: one Ticker Store operation is called and
\* gives a result, which is returned; a result that is not absent is stored
\* under the requested key with the current time, an absent one leaves the
\* cache as it was and the key without a value.
MissContract ==
    LET K == KeyOf(ev'.args)
    IN  /\ Len(ev'.reads) = 1
        /\ ev'.ret # Raised
        /\ ev'.args.data_type \in KindsWithStoreMethod => ev'.ret = LazyStoreResult(ev')
        /\ ev'.ret # None =>
              /\ data_cache' = DictSet(data_cache, K, ev'.ret)
              /\ cache_timestamps' = DictSet(cache_timestamps, K, now')
        /\ ev'.ret = None =>
              /\ UNCHANGED cacheVars
              /\ get(data_cache', cache_timestamps', now', ev'.args.ticker,
                     ev'.args.data_type, ev'.args.kwargs) = None

\* C9: a Lazy Loader call of any kind (price, company info, financial data,
\* dividends, news) that finds no valid entry reads the Ticker Store exactly
\* once and returns the result; a result that is not absent is stored under
\* the requested key with the current time, an absent one leaves the cache as
\* it was, so that the next load of the key reads the Ticker Store again.
C9_MissReadsOnceAndStoresValue ==
    [][ LazyMissStep => MissContract ]_vars

\* The case of C9: load_dividend_data missed the cache while the ticker's
\* dividend file exists, and ended in the AttributeError of the Ticker Store's
\* missing method: nothing was read, returned or stored.
C9_Witness ==
    /\ ev.op = "LazyDataLoader.load_dividend_data"
    /\ ev.fs.files[ev.args.ticker]["dividend_data"] # NoFile
    /\ ev.ret = Raised
    /\ ev.sets = <<>>
    /\ KeyOf(ev.args) \notin DOMAIN data_cache

\* The part of C9 that the code keeps: the contract holds for the kinds whose
\* Ticker Store method exists.
MissContractWhereStoreMethodExists ==
    [][ (LazyMissStep /\ ev'.args.data_type \in KindsWithStoreMethod) => MissContract
      ]_vars

-----------------------------------------------------------------------------
(* Properties of the aggregator over time (checked under Spec) *)

Range(s) == {s[i] : i \in 1..Len(s)}

\* What a rebuild recorded in e must have done: enumerated the tickers, read
\* the company_info.csv of every listed ticker that has one, and returned a
\* new table.
ScannedAgain(e, listed) ==
    /\ e.rebuilt
    /\ e.reads # <<>>
    /\ e.reads[1] = Read("*", "get_available_tickers")
    /\ \A i \in 1..Len(listed.items) :
          exists(e.fs, listed.items[i], "company_info")
             => Read(listed.items[i], "company_info") \in Range(e.reads)

\* C4: the table and its build time change only when a load rebuilds, and the
\* build time is then the clock value of that load.  A load without
\* force_reload that finds a table younger than the aggregator's ttl returns
\* that table, enumerates no tickers, reads no file and leaves the shared
\* cache alone; one that finds no table, or a table of age ttl or more,
\* rebuilds.
C4_LoadReusesTableWithinTtl ==
    [][ /\ ( \/ UNCHANGED sectorVars
             \/ (Idle /\ ev'.rebuilt /\ _last_sector_load_time' = now') )
        /\ (Idle /\ ev'.op = "load_sector_data" /\ ~ev'.args.force_reload) =>
              IF /\ _sector_data_cache # None
                 /\ now - _last_sector_load_time < _sector_cache_ttl
              THEN /\ ev'.ret = _sector_data_cache
                   /\ ~ev'.rebuilt
                   /\ ev'.reads = <<>>
                   /\ ev'.sets = <<>>
                   /\ UNCHANGED <<cacheVars, sectorVars, _available_tickers>>
              ELSE /\ ScannedAgain(ev', _available_tickers')
                   /\ _sector_data_cache' = ev'.ret
                   /\ _last_sector_load_time' = now'
      ]_vars

\* Witness of C4: a load without force_reload answered with the table built
\* earlier, at a positive age below the aggregator's ttl.
C4_Witness ==
    /\ ev.op = "load_sector_data"
    /\ ~ev.args.force_reload
    /\ ~ev.rebuilt
    /\ ev.table_age # None
    /\ ev.table_age.v > 0
    /\ ev.table_age.v < _sector_cache_ttl
    /\ ev.ret = _sector_data_cache
    /\ ev.ret.rows # <<>>

\* C5: a load with force_reload rebuilds the table by scanning the tickers
\* again and sets the build time to the current time, whatever the age of the
\* table it finds.
C5_ForceReloadRebuilds ==
    [][ (Idle /\ ev'.op = "load_sector_data" /\ ev'.args.force_reload) =>
           /\ ScannedAgain(ev', _available_tickers')
           /\ _sector_data_cache' = ev'.ret
           /\ _last_sector_load_time' = now'
      ]_vars

\* Witness of C5: a forced load that rebuilt although the table it found was
\* younger than the aggregator's ttl.
C5_Witness ==
    /\ ev.op = "load_sector_data"
    /\ ev.args.force_reload
    /\ ev.rebuilt
    /\ ev.table_age # None
    /\ ev.table_age.v > 0
    /\ ev.table_age.v < _sector_cache_ttl
    /\ _last_sector_load_time = now
    /\ ev.ret = _sector_data_cache


-----------------------------------------------------------------------------
(* Properties of the sector scan (checked under SpecScan) *)

\* The observation with the latest Date among rows, and the latest of the others
LatestObs(rows) ==
    CHOOSE r \in Range(rows) : \A q \in Range(rows) : q.Date <= r.Date
PriorObs(rows) ==
    LET rest == Range(rows) \ {LatestObs(rows)}
    IN  CHOOSE r \in rest : \A q \in rest : q.Date <= r.Date

\* The price series a rebuild used for a ticker: the valid entry of the shared
\* cache after the rebuild (found there, or read from the file and stored).
SeriesUsed(ticker) == GetNow(KeyArgs(ticker, "stock_data", <<>>))

\* C7: in every row a rebuild makes from a price series of two or more
\* observations, price_change is (last - prior) / prior * 100 for the closes of
\* the two latest observations by date and current_price is the last close;
\* from a series of one observation price_change is 0 and current_price that
\* close.  A series read from the file has the observations of the file.
C7_PriceChangeFromLatestTwo ==
    ev.rebuilt =>
        \A i \in 1..Len(ev.ret.rows) :
            LET row == ev.ret.rows[i]
                s   == SeriesUsed(row.ticker)
            IN  /\ ( /\ Read(row.ticker, "stock_data") \in Range(ev.reads)
                     /\ s # None )
                   => Range(s.rows) = Range(ev.fs.files[row.ticker].stock_data.rows)
                /\ (s # None /\ Len(s.rows) >= 2) =>
                      LET last  == LatestObs(s.rows).Close
                          prior == PriorObs(s.rows).Close
                      IN  /\ row.current_price = last
                          /\ row.price_change = Rat((last - prior) * 100, prior)
                /\ (s # None /\ Len(s.rows) = 1) =>
                      /\ row.current_price = s.rows[1].Close
                      /\ row.price_change = Zero

\* Witness of C7: the row of ticker 7203, read from a file with the closes
\* 100, 102, 101, 105, 110: price_change (110 - 105) / 105 * 100 = 100/21.
C7_Witness ==
    /\ ev.rebuilt
    /\ Read("7203", "stock_data") \in Range(ev.reads)
    /\ ev.fs.files["7203"].stock_data = PriceFive
    /\ \E i \in 1..Len(ev.ret.rows) :
          /\ ev.ret.rows[i].ticker = "7203"
          /\ ev.ret.rows[i].current_price = 110
          /\ ev.ret.rows[i].price_change = [num |-> 100, den |-> 21]

\* A company_info.csv that yields a row: it exists, parses, has a data row
\* and every required column.
InfoReadable(f) ==
    /\ f # NoFile
    /\ f.parses
    /\ f.rows # <<>>
    /\ RequiredInfoCols \subseteq f.columns

\* C10: a rebuild ends with a table whatever the company-info files are: the
\* table has exactly one row for each listed ticker whose company-info file
\* was read successfully and no row for a ticker whose file is missing,
\* empty, malformed or lacks a required column.
C10_OneRowPerReadableTicker ==
    ev.rebuilt =>
        LET good == {t \in Range(_available_tickers.items) :
                        InfoReadable(ev.fs.files[t].company_info)}
        IN  /\ ev.ret.type = "DataFrame"
            /\ {ev.ret.rows[i].ticker : i \in 1..Len(ev.ret.rows)} = good
            /\ Len(ev.ret.rows) = Cardinality(good)

\* Witness of C10: the first ticker has a malformed company-info file, the
\* scan goes on and the table has the row of the second ticker only.
C10_Witness ==
    /\ ev.rebuilt
    /\ ev.fs.files["1064"].company_info = Malformed
    /\ Read("1064", "company_info") \in Range(ev.reads)
    /\ Len(ev.ret.rows) = 1
    /\ ev.ret.rows[1].ticker = "7203"

-----------------------------------------------------------------------------
(* Properties of the aggregator and the shared cache (checked under Spec) *)

\* The key under which the aggregator and the Lazy Loader keep a price series
PriceKey(ticker) == _generate_cache_key(ticker, "stock_data", <<>>)

\* The entry under K is stored and younger than the cache's ttl at clock t
EntryValidAt(dc, ts, K, t) ==
    /\ K \in DOMAIN ts
    /\ K \in DOMAIN dc
    /\ t - ts[K] < cache_ttl

\* The step leaves the entry under K (value and timestamp) as it was
EntrySame(K) ==
    /\ (K \in DOMAIN data_cache') = (K \in DOMAIN data_cache)
    /\ (K \in DOMAIN cache_timestamps') = (K \in DOMAIN cache_timestamps)
    /\ K \in DOMAIN data_cache => data_cache'[K] = data_cache[K]
    /\ K \in DOMAIN cache_timestamps => cache_timestamps'[K] = cache_timestamps[K]

\* A company_info.csv that parses and has a data row
InfoNonEmpty(f) ==
    /\ f # NoFile
    /\ f.parses
    /\ f.rows # <<>>
    /\ f.columns # {}

\* C11: a rebuild reads the price series of every listed ticker with
\* non-empty company info through the shared cache under the key (ticker,
\* "stock_data", no extra params): a valid entry is used, the price file is
\* not read and the entry stays as it is; on a miss the price file is read
\* and a result that is not absent is stored with the current time, an absent
\* one stores nothing.  A Lazy Loader load_stock_data(ticker) without extra
\* params that finds a valid entry under that key (as it does within ttl of a
\* rebuild that stored or used one) returns it without a Ticker Store call,
\* and one that misses and gets a series stores it with the current time, so
\* that a rebuild within ttl of it reads no price file for the ticker.
C11_PriceSeriesThroughSharedCache ==
    [][ /\ (Idle /\ ev'.rebuilt) =>
              \A i \in 1..Len(_available_tickers'.items) :
                 LET t == _available_tickers'.items[i]
                     K == PriceKey(t)
                     r == load_stock_data(ev'.fs, t)
                 IN  InfoNonEmpty(ev'.fs.files[t].company_info) =>
                       IF EntryValidAt(data_cache, cache_timestamps, K, now)
                       THEN /\ Read(t, "stock_data") \notin Range(ev'.reads)
                            /\ EntrySame(K)
                       ELSE /\ Read(t, "stock_data") \in Range(ev'.reads)
                            /\ r # None =>
                                  /\ K \in DOMAIN data_cache' /\ data_cache'[K] = r
                                  /\ K \in DOMAIN cache_timestamps'
                                  /\ cache_timestamps'[K] = now'
                            /\ r = None => EntrySame(K)
        /\ ( /\ Idle
             /\ ev'.op = "LazyDataLoader.load_stock_data"
             /\ ev'.args.kwargs = <<>> ) =>
              LET K == PriceKey(ev'.args.ticker)
              IN  IF EntryValidAt(data_cache, cache_timestamps, K, now)
                  THEN /\ ev'.reads = <<>>
                       /\ ev'.ret = data_cache[K]
                       /\ EntrySame(K)
                  ELSE ev'.ret # None =>
                          /\ K \in DOMAIN data_cache' /\ data_cache'[K] = ev'.ret
                          /\ K \in DOMAIN cache_timestamps'
                          /\ cache_timestamps'[K] = now'
      ]_vars

\* Witness of C11: a rebuild that follows, within ttl, a load of ticker 7203
\* that stored the one-observation series: the directory now holds the
\* five-observation file, the rebuild does not read it and the row of 7203
\* carries the price of the cached series.
C11_Witness ==
    /\ ev.rebuilt
    /\ ev.fs.files["7203"].stock_data = PriceFive
    /\ Read("7203", "stock_data") \notin Range(ev.reads)
    /\ Read("7203", "company_info") \in Range(ev.reads)
    /\ PriceKey("7203") \in DOMAIN cache_timestamps
    /\ now - cache_timestamps[PriceKey("7203")] > 0
    /\ now - cache_timestamps[PriceKey("7203")] < cache_ttl
    /\ \E i \in 1..Len(ev.ret.rows) :
          /\ ev.ret.rows[i].ticker = "7203"
          /\ ev.ret.rows[i].current_price = 200

-----------------------------------------------------------------------------
(* Properties of the partial clear (checked under SpecCache) *)

\* get for the arguments a after the step
GetNext(a) ==
    get(data_cache', cache_timestamps', now', a.ticker, a.data_type, a.kwargs)

\* C12: after clear(ticker=T) get(T, kind, params) is absent for every kind
\* and params and the entries of the other tickers are still returned; after
\* clear(data_type=K) get is absent for every key of kind K and the entries of
\* the other kinds are still returned.
C12_ClearRemovesEntriesOfTicker ==
    [][ /\ ( /\ Idle /\ ev'.op = "clear"
             /\ ev'.args.ticker # None /\ ev'.args.data_type = None ) =>
              \A a \in KeyTuples :
                 IF a.ticker = ev'.args.ticker.s
                 THEN GetNext(a) = None
                 ELSE GetNext(a) = GetNow(a)
        /\ ( /\ Idle /\ ev'.op = "clear"
             /\ ev'.args.ticker = None /\ ev'.args.data_type # None ) =>
              \A a \in KeyTuples :
                 IF a.data_type = ev'.args.data_type.s
                 THEN GetNext(a) = None
                 ELSE GetNext(a) = GetNow(a)
      ]_vars

\* The case of C12: clear(ticker="7203") has run, the entry stored for
\* (7203, stock_data) is still returned by get, and the entry that was stored
\* for (1064, stock_data) is gone.
C12_Witness ==
    /\ ev.op = "clear"
    /\ ev.args.ticker = Str("7203")
    /\ ev.args.data_type = None
    /\ GetNow(KeyArgs("7203", "stock_data", <<>>)) # None
    /\ ev.removed = {_generate_cache_key("1064", "stock_data", <<>>)}

\* The text a occurs in the key K: some window of K's characters spells a
OccursIn(a, K) ==
    LET n == Len(Chars(a))
    IN  \E i \in 1..(Len(Chars(K)) - n + 1) :
            SubSeq(Chars(K), i, i + n - 1) = Chars(a)

\* C13: a clear with a ticker and/or a kind given removes exactly the entries
\* whose derived key contains every given argument as a substring, value and
\* timestamp of each, and leaves every other entry, value and timestamp, as
\* it was.
C13_PartialClearBySubstringOfKey ==
    [][ ( /\ Idle /\ ev'.op = "clear"
          /\ (ev'.args.ticker # None \/ ev'.args.data_type # None) ) =>
           LET given == {x \in {ev'.args.ticker, ev'.args.data_type} : x # None}
               R == {K \in DOMAIN data_cache : \A x \in given : OccursIn(x.s, K)}
           IN  /\ ev'.removed = R
               /\ DOMAIN data_cache' = DOMAIN data_cache \ R
               /\ DOMAIN cache_timestamps' = DOMAIN cache_timestamps \ R
               /\ \A K \in DOMAIN data_cache' : data_cache'[K] = data_cache[K]
               /\ \A K \in DOMAIN cache_timestamps' :
                     cache_timestamps'[K] = cache_timestamps[K]
      ]_vars

\* Witness of C13: clear(ticker="7203") removed the one entry whose key
\* contains the text 7203 and left another entry with its timestamp.
C13_Witness ==
    /\ ev.op = "clear"
    /\ ev.args.ticker = Str("7203")
    /\ ev.args.data_type = None
    /\ Cardinality(ev.removed) = 1
    /\ \A K \in ev.removed : OccursIn("7203", K) /\ K \notin DOMAIN cache_timestamps
    /\ DOMAIN data_cache # {}
    /\ DOMAIN cache_timestamps = DOMAIN data_cache

-----------------------------------------------------------------------------
(* Properties of the statistics and of expired entries (checked under        *)
(* SpecCache)                                                                *)

\* What stats has to report for the maps dc and ts at clock t
StatsOf(dc, ts, t) ==
    LET young == {K \in DOMAIN dc : K \in DOMAIN ts /\ t - ts[K] < cache_ttl}
    IN  [cache_ttl |-> 3600,
         total_cached |-> Cardinality(DOMAIN dc),
         valid_cached |-> Cardinality(young),
         expired_cached |-> Cardinality(DOMAIN dc \ young)]

\* C14: in every reachable state stats reports total = the number of stored
\* entries, valid = the number of stored entries of age below ttl, expired =
\* total - valid and ttl = the configured ttl, so that total = valid + expired
\* with neither negative; a call of stats returns that report and changes no
\* entry.
C14_StatsCountEntries ==
    [][ /\ LET s == get_cache_stats(data_cache', cache_timestamps', now')
           IN  /\ s = StatsOf(data_cache', cache_timestamps', now')
               /\ s.total_cached = s.valid_cached + s.expired_cached
               /\ s.valid_cached >= 0
               /\ s.expired_cached >= 0
        /\ (Idle /\ ev'.op = "get_cache_stats") =>
              /\ ev'.ret = StatsOf(data_cache, cache_timestamps, now)
              /\ UNCHANGED cacheVars
      ]_vars

\* Witness of C14: stats reports two entries, one valid and one expired.
C14_Witness ==
    /\ ev.op = "get_cache_stats"
    /\ ev.ret.total_cached = 2
    /\ ev.ret.valid_cached = 1
    /\ ev.ret.expired_cached = 1
    /\ ev.ret.cache_ttl = 3600

-----------------------------------------------------------------------------
(* Properties of sessions (checked under SpecSessions) *)

\* The call recorded in e was made in the second session
InOtherSession(e) == "session" \in DOMAIN e.args

\* C15: the sessions have independent caches: a call made in one session
\* changes no entry of the other (so a clear in one removes none of the
\* other's), and get in one session never returns a value that was stored by
\* set in the other.
C15_SessionsHaveIndependentCaches ==
    [][ /\ (Idle /\ ev' # NoCall /\ InOtherSession(ev')) =>
              /\ UNCHANGED cacheVars
              /\ ev'.op = "get" => ev'.ret # OwnValue(1)
        /\ (Idle /\ ev' # NoCall /\ ~InOtherSession(ev')) =>
              /\ UNCHANGED other_session
              /\ ev'.op = "get" => ev'.ret # OwnValue(2)
      ]_vars

\* Witness of C15: get in the second session answers absent for a key under
\* which the first session holds a valid entry, while the second session has
\* an entry of its own under another key.
C15_Witness ==
    /\ ev.op = "get"
    /\ InOtherSession(ev)
    /\ ev.ret = None
    /\ GetNow(ev.args) = OwnValue(1)
    /\ other_session.initialised
    /\ \E K \in DOMAIN other_session.data_cache :
          other_session.data_cache[K] = OwnValue(2)

-----------------------------------------------------------------------------
(* Properties of the Ticker Store (checked under SpecStore) *)

StoreOps == {"StockDataLoader.load_stock_data", "StockDataLoader.load_company_info",
             "StockDataLoader.load_technical_indicators",
             "StockDataLoader.load_financial_ratios"}

\* The file the Ticker Store call recorded in e found (NoFile: none)
StoreFile(e) ==
    IF e.args.ticker \in e.fs.dirs THEN e.fs.files[e.args.ticker][e.args.artifact]
    ELSE NoFile

\* The operations that convert and sort the Date column
NeedsDate(op) == op \in {"StockDataLoader.load_stock_data",
                         "StockDataLoader.load_technical_indicators"}

\* C16: every load operation of the Ticker Store returns absent when its
\* file does not exist and when reading or parsing it fails (a file that
\* cannot be parsed, a missing Date column where the operation sorts by
\* Date); none ends in an error.
C16_StoreLoadsReturnAbsentOnFailure ==
    ev.op \in StoreOps =>
        LET f == StoreFile(ev)
        IN  /\ ev.ret # Raised
            /\ f = NoFile => ev.ret = None
            /\ (f # NoFile /\ ~f.parses) => ev.ret = None
            /\ (f # NoFile /\ NeedsDate(ev.op) /\ "Date" \notin f.columns) => ev.ret = None
            /\ ( /\ f # NoFile /\ f.parses
                 /\ NeedsDate(ev.op) => "Date" \in f.columns )
               => /\ ev.ret # None
                  /\ ev.ret.type = "DataFrame"

\* Witness of C16: load_financial_ratios found a file that cannot be parsed
\* and returned absent.
C16_Witness ==
    /\ ev.op = "StockDataLoader.load_financial_ratios"
    /\ StoreFile(ev) = Malformed
    /\ ev.ret = None

-----------------------------------------------------------------------------
(* Properties of the Lazy Loader over all data kinds (checked under SpecLazy) *)

\* The kinds the Lazy Loader offers, by the cache key's data_type
OfferedKinds == {"stock_data", "company_info", "financial_income_statement",
                 "financial_balance_sheet", "financial_cashflow",
                 "financial_financial_ratios", "dividend_data", "news_data"}

\* C17: for every data kind the Lazy Loader offers, a call on a cache miss
\* delegates to one read operation of the Ticker Store and returns a frame or
\* absent; no call ends in an error.
C17_EveryKindDelegatesWithoutError ==
    [][ ( /\ Idle
          /\ ev'.op \in {"LazyDataLoader.load_stock_data",
                         "LazyDataLoader.load_company_info",
                         "LazyDataLoader.load_financial_data",
                         "LazyDataLoader.load_dividend_data",
                         "LazyDataLoader.load_news_data"}
          /\ ev'.args.data_type \in OfferedKinds ) =>
           /\ ev'.ret # Raised
           /\ GetNow(ev'.args) = None => Len(ev'.reads) = 1
      ]_vars

\* The case of C17: load_financial_data(ticker, "income_statement") missed the
\* cache and ended in the AttributeError of the Ticker Store's missing method.
C17_Witness ==
    /\ ev.op = "LazyDataLoader.load_financial_data"
    /\ ev.args.data_type = "financial_income_statement"
    /\ ev.ret = Raised
    /\ ev.sets = <<>>

-----------------------------------------------------------------------------
(* Properties of the two time-to-live values (checked under Spec) *)

\* A load without force_reload that finds a table
PlainLoadWithTable ==
    /\ Idle
    /\ ev'.op = "load_sector_data"
    /\ ~ev'.args.force_reload
    /\ _sector_data_cache # None

\* An entry of the shared cache stamped with the build time of the table is
\* still valid
EntryOfBuildTimeValid ==
    \E K \in DOMAIN cache_timestamps :
        /\ cache_timestamps[K] = _last_sector_load_time
        /\ EntryValidAt(data_cache, cache_timestamps, K, now)

\* C18: the aggregator's time-to-live is longer than the shared cache's: a
\* table built at time t is still returned by a load at every age at which an
\* entry of the shared cache set at time t is still valid.
C18_TableOutlivesCacheEntries ==
    [][ (PlainLoadWithTable /\ EntryOfBuildTimeValid) =>
           /\ ~ev'.rebuilt
           /\ ev'.ret = _sector_data_cache
      ]_vars

\* The case of C18: a load without force_reload rebuilt a table of age 1800 s
\* or more and used, without reading the price file, an entry of the shared
\* cache that was stored when that table was built.
C18_Witness ==
    /\ ev.op = "load_sector_data"
    /\ ~ev.args.force_reload
    /\ ev.rebuilt
    /\ ev.table_age # None
    /\ ev.table_age.v >= 1800
    /\ \E t \in Tickers :
          /\ PriceKey(t) \in DOMAIN cache_timestamps
          /\ now - cache_timestamps[PriceKey(t)] = ev.table_age.v
          /\ Read(t, "company_info") \in Range(ev.reads)
          /\ Read(t, "stock_data") \notin Range(ev.reads)

-----------------------------------------------------------------------------
(* Properties of the batched scan (checked under SpecBatch) *)

\* The ticker yields a row from the data root fs
YieldsRow(fs, ticker) ==
    /\ ticker \in fs.dirs
    /\ InfoReadable(fs.files[ticker].company_info)

\* The tickers of the rows of a table, in row order
RowTickers(table) == [i \in 1..Len(table.rows) |-> table.rows[i].ticker]

\* C19: the rows of the table a rebuild makes are in the order in which
\* get_available_tickers lists the tickers, with at most one row per ticker:
\* the row tickers are the listing with the tickers that yield no row left
\* out, whether the listing fills one batch of 50 or more.
C19_RowsInEnumerationOrder ==
    ev.rebuilt =>
        LET listed == _available_tickers.items
            tk == RowTickers(ev.ret)
        IN  /\ tk = SelectSeq(listed, LAMBDA t : YieldsRow(ev.fs, t))
            /\ \A i, j \in 1..Len(tk) : tk[i] = tk[j] => i = j

\* Witness of C19: a listing of 52 tickers, scanned in two batches; the 50th
\* ticker yields no row and the 51st and 52nd follow the 49th in the table.
C19_Witness ==
    /\ ev.rebuilt
    /\ Len(_available_tickers.items) = 52
    /\ Len(ev.ret.rows) = 51
    /\ ev.ret.rows[49].ticker = "8047"
    /\ ev.ret.rows[50].ticker = "8049"
    /\ ev.ret.rows[51].ticker = "8050"


-----------------------------------------------------------------------------
(* C20 *)

\* the stored entries whose age has reached ttl
ExpiredKeys == {K \in DOMAIN data_cache :
                   K \in DOMAIN cache_timestamps /\ now - cache_timestamps[K] >= cache_ttl}

\* C20: an entry whose age has reached ttl is inert but not purged. A get
\* call changes no value and no timestamp in any state, and returns absent
\* when the key's entry is expired; a stats call counts every expired entry
\* as expired; and a step after which an expired entry is no longer stored is
\* a clear that removed it, a step after which its value or timestamp is
\* another one is a step that called set on its key.
C20_ExpiredEntryInertNotPurged ==
    [][ /\ (Idle /\ ev'.op = "get") =>
              /\ UNCHANGED cacheVars
              /\ KeyOf(ev'.args) \in ExpiredKeys => ev'.ret = None
        /\ (Idle /\ ev'.op = "get_cache_stats") =>
              ev'.ret.expired_cached = Cardinality(ExpiredKeys)
        /\ \A K \in ExpiredKeys :
              /\ (K \notin DOMAIN data_cache' \/ K \notin DOMAIN cache_timestamps') =>
                    (ev'.op = "clear" /\ K \in ev'.removed)
              /\ ( /\ K \in DOMAIN data_cache' /\ K \in DOMAIN cache_timestamps'
                   /\ ( \/ data_cache'[K] # data_cache[K]
                        \/ cache_timestamps'[K] # cache_timestamps[K] ) ) =>
                    SetsOf(ev', K) # <<>>
      ]_vars

\* Witness of C20: a get answered absent for a key whose entry, past its ttl,
\* is still stored with its value, next to a second entry that is still valid.
C20_Witness ==
    /\ ev.op = "get"
    /\ ev.ret = None
    /\ KeyOf(ev.args) \in ExpiredKeys
    /\ data_cache[KeyOf(ev.args)] # None
    /\ \E K \in DOMAIN data_cache \ ExpiredKeys : K # KeyOf(ev.args)


-----------------------------------------------------------------------------
(* C21 *)

\* a direct call of set, as recorded in the next state
SetStep == Idle /\ ev'.op = "set"

\* C21: set(ticker, kind, v, params) replaces any prior entry of the key,
\* valid or expired: after the call the key holds v stamped with the current
\* time, get returns v, the entry is valid at every clock value below
\* now + ttl and no longer at now + ttl; the number of stored entries has
\* grown by one if the key was new and is unchanged otherwise, and every
\* other entry keeps its value and its timestamp.
C21_SetReplacesEntry ==
    [][ SetStep =>
          LET K == KeyOf(ev'.args)
              v == ev'.sets[1].data
          IN  /\ K \in DOMAIN data_cache' /\ data_cache'[K] = v
              /\ K \in DOMAIN cache_timestamps' /\ cache_timestamps'[K] = now
              /\ GetNext(ev'.args) = v
              /\ \A d \in {0, Tick, cache_ttl - 1} :
                    get(data_cache', cache_timestamps', now + d, ev'.args.ticker,
                        ev'.args.data_type, ev'.args.kwargs) = v
              /\ get(data_cache', cache_timestamps', now + cache_ttl, ev'.args.ticker,
                     ev'.args.data_type, ev'.args.kwargs) = None
              /\ Cardinality(DOMAIN data_cache') =
                    Cardinality(DOMAIN data_cache) + (IF K \in DOMAIN data_cache THEN 0 ELSE 1)
              /\ DOMAIN data_cache' = DOMAIN data_cache \cup {K}
              /\ DOMAIN cache_timestamps' = DOMAIN cache_timestamps \cup {K}
              /\ \A J \in DOMAIN data_cache \ {K} :
                    /\ data_cache'[J] = data_cache[J]
                    /\ cache_timestamps'[J] = cache_timestamps[J]
      ]_vars

\* Witness of C21: a set made after the clock has moved, next to an older
\* entry that kept its timestamp; the key set holds the one-row frame stamped
\* with the current time.
C21_Witness ==
    /\ ev.op = "set"
    /\ now > StartTime
    /\ KeyOf(ev.args) \in DOMAIN data_cache
    /\ data_cache[KeyOf(ev.args)] = sort_values(read_csv(PriceOne))
    /\ cache_timestamps[KeyOf(ev.args)] = now
    /\ \E J \in DOMAIN cache_timestamps : cache_timestamps[J] < now


-----------------------------------------------------------------------------
(* C22 (checked under SpecKeys) *)

OrderedKeyTuples ==
    {KeyArgs(t, k, kw) : t \in Tickers, k \in Kinds, kw \in OrderedKwargs}

\* the extra parameters as a set of name-value pairs
ParamSet(kwargs) == {kwargs[i] : i \in 1..Len(kwargs)}

\* same ticker, same kind, same set of extra parameters
SameTuple(a, b) ==
    /\ a.ticker = b.ticker
    /\ a.data_type = b.data_type
    /\ ParamSet(a.kwargs) = ParamSet(b.kwargs)

\* the arguments of the set that stored the value v
StoredBy(v) ==
    KeyArgs(v.items[1], v.items[2],
            [i \in 1..((Len(v.items) - 2) \div 2) |->
                <<v.items[2 * i + 1], v.items[2 * i + 2]>>])

\* C22: the key is a function of (ticker, kind, set of extra params) and of
\* nothing else, the order of the params included: two argument tuples derive
\* the same key exactly when they agree on ticker, kind and set of params; a
\* value that get returns was stored by a set with the same ticker, kind and
\* set of params; and a set changes what get returns for no other tuple.
C22_KeyIsFunctionOfTuple ==
    [][ /\ (Idle /\ ev'.op \in {"get", "set"}) =>
              \A b \in OrderedKeyTuples :
                 (KeyOf(ev'.args) = KeyOf(b)) <=> SameTuple(ev'.args, b)
        /\ (Idle /\ ev'.op = "get" /\ ev'.ret # None) =>
              SameTuple(StoredBy(ev'.ret), ev'.args)
        /\ SetStep =>
              \A b \in OrderedKeyTuples :
                 IF SameTuple(ev'.args, b)
                 THEN GetNext(b) = ev'.sets[1].data
                 ELSE GetNext(b) = GetNow(b)
      ]_vars

\* Witness of C22: a get with interval given before period returns the value
\* that a set with period given before interval stored.
C22_Witness ==
    /\ ev.op = "get"
    /\ ev.args.kwargs = << <<"interval", "1d">>, <<"period", "1y">> >>
    /\ ev.ret # None
    /\ StoredBy(ev.ret).kwargs = << <<"period", "1y">>, <<"interval", "1d">> >>


-----------------------------------------------------------------------------
(* C23 (checked under SpecScan) *)

\* a load that rebuilds while the aggregator holds a table
RebuildOverTable == Idle /\ ev'.rebuilt /\ _sector_data_cache # None

\* C23: a rebuild makes the table from the scan it runs and from nothing of
\* the table it replaces: a ticker that had a row and whose company-info file
\* is not readable any more has no row, every row belongs to a ticker whose
\* company-info file the scan read, with the employees value of that file,
\* no ticker has two rows, and the table is the one the same scan builds when
\* no table was held.
C23_RebuildFromCurrentScanOnly ==
    [][ RebuildOverTable =>
          LET old == Range(RowTickers(_sector_data_cache))
              new == ev'.ret.rows
          IN  /\ \A t \in old : ~YieldsRow(ev'.fs, t) => t \notin Range(RowTickers(ev'.ret))
              /\ \A i \in 1..Len(new) :
                    /\ YieldsRow(ev'.fs, new[i].ticker)
                    /\ Read(new[i].ticker, "company_info") \in Range(ev'.reads)
                    /\ new[i].employees =
                          (IF "employees" \in ev'.fs.files[new[i].ticker].company_info.columns
                           THEN 1 ELSE 0)
                    /\ \A j \in 1..Len(new) : new[j].ticker = new[i].ticker => j = i
              /\ ev'.ret = SectorTable(Rebuild(data_cache, cache_timestamps,
                                               _available_tickers, ev'.fs, now).rows)
              /\ _sector_data_cache' = ev'.ret
      ]_vars

\* Witness of C23: a rebuild over a table that was held, with both tickers
\* listed; the company-info file of 1064 is gone and the new table has the row
\* of 7203 only.
C23_Witness ==
    /\ ev.rebuilt
    /\ ev.table_age # None
    /\ _available_tickers = List(<<"1064", "7203">>)
    /\ ev.fs.files["1064"].company_info = NoFile
    /\ RowTickers(ev.ret) = <<"7203">>
    /\ _sector_data_cache = ev.ret


-----------------------------------------------------------------------------
(* C24 (checked under SpecScan) *)

\* Neither the shared cache, before the step, nor the price file the step
\* finds gives a price series for the ticker
NoPriceData(fs, ticker) ==
    /\ get(data_cache, cache_timestamps, now, ticker, "stock_data", <<>>) = None
    /\ load_stock_data(fs, ticker) = None

\* The table has a row of the ticker with price 0 and change 0
HasZeroPriceRow(table, ticker) ==
    \E i \in 1..Len(table.rows) :
       /\ table.rows[i].ticker = ticker
       /\ table.rows[i].current_price = 0
       /\ table.rows[i].price_change = Zero

\* The rebuild left the ticker alone: no row, no read of its price file, its
\* cache entry as it was
LeftAlone(ticker) ==
    /\ ticker \notin Range(RowTickers(ev'.ret))
    /\ Read(ticker, "stock_data") \notin Range(ev'.reads)
    /\ EntrySame(PriceKey(ticker))

\* C24 as stated: in a rebuild every listed ticker with a non-empty
\* company-info file and no readable price data gets a row with
\* current_price = 0 and price_change = 0; a ticker without a non-empty
\* company-info file gets no row, its price file is not read and its entry in
\* the shared cache is not changed.
C24_RowWithoutPriceData ==
    [][ (Idle /\ ev'.rebuilt) =>
          \A t \in Range(_available_tickers'.items) :
             LET f == ev'.fs.files[t].company_info
             IN  /\ (InfoNonEmpty(f) /\ NoPriceData(ev'.fs, t)) =>
                       HasZeroPriceRow(ev'.ret, t)
                 /\ ~InfoNonEmpty(f) => LeftAlone(t)
      ]_vars

\* C24, amended: the row is promised to a ticker whose non-empty company-info
\* file has the columns the row is made of.  In a rebuild every listed ticker
\* with such a file and no readable price data gets a row with
\* current_price = 0 and price_change = 0; a ticker without a non-empty
\* company-info file gets no row, its price file is not read and its entry in
\* the shared cache is not changed.
C24_RowWithoutPriceDataGivenColumns ==
    [][ (Idle /\ ev'.rebuilt) =>
          \A t \in Range(_available_tickers'.items) :
             LET f == ev'.fs.files[t].company_info
             IN  /\ (InfoReadable(f) /\ NoPriceData(ev'.fs, t)) =>
                       HasZeroPriceRow(ev'.ret, t)
                 /\ ~InfoNonEmpty(f) => LeftAlone(t)
      ]_vars

\* Witness of C24: 7203 has a complete company-info file and a price file
\* without a Date column, and gets a row with price 0 and change 0; 1064 has
\* a price file and no company-info file, and gets no row, no read of the
\* price file and no cache entry.
C24_Witness ==
    /\ ev.rebuilt
    /\ ev.fs.files["7203"].company_info = InfoOk
    /\ ev.fs.files["7203"].stock_data = PriceNoDate
    /\ Read("7203", "stock_data") \in Range(ev.reads)
    /\ HasZeroPriceRow(ev.ret, "7203")
    /\ ev.fs.files["1064"].company_info = NoFile
    /\ ev.fs.files["1064"].stock_data = PriceFive
    /\ RowTickers(ev.ret) = <<"7203">>
    /\ Read("1064", "stock_data") \notin Range(ev.reads)
    /\ PriceKey("1064") \notin DOMAIN data_cache


-----------------------------------------------------------------------------
(* C25 (checked under SpecCompare) *)

\* ticker, current_price and price_change of every row, in row order
PriceView(table) ==
    [i \in 1..Len(table.rows) |->
        [ticker |-> table.rows[i].ticker,
         price_change |-> table.rows[i].price_change,
         current_price |-> table.rows[i].current_price]]

\* C25: a rebuild of the optimised aggregator that starts from an empty
\* shared cache builds the table that SectorAnalysis.load_sector_data builds
\* from the same files: the same tickers in the same order with the same
\* current_price and price_change.
C25_OptimisedEqualsOriginal ==
    [][ (Idle /\ ev'.rebuilt /\ data_cache = EmptyDict) =>
           PriceView(ev'.ret) = PriceView(SectorTable(AnalysisScan(ev'.fs).rows))
      ]_vars

\* Witness of C25: from the price file of 7203 with the closes of days
\* 5, 1, 2, 3, 4 in this order, and no cache entry before, the optimised
\* rebuild takes the close of day 5 (110) and the original aggregator the last
\* line of the file (105).
C25_Witness ==
    /\ ev.rebuilt
    /\ ev.fs.files["7203"].stock_data = PriceFive
    /\ Read("7203", "stock_data") \in Range(ev.reads)
    /\ \E i \in 1..Len(ev.ret.rows) :
          /\ ev.ret.rows[i].ticker = "7203"
          /\ ev.ret.rows[i].current_price = 110
    /\ LET o == AnalysisScan(ev.fs).rows
       IN  \E i \in 1..Len(o) : o[i].ticker = "7203" /\ o[i].current_price = 105


-----------------------------------------------------------------------------
(* C26 (checked under SpecSessions) *)

CacheOps == {"get", "set", "clear", "get_cache_stats"}

\* C26: get, set, clear and stats on the DataCache that get_data_cache()
\* returns end without an error in every session, the sessions in which the
\* DataCache object was not constructed included.
C26_CacheCallsNeverFail ==
    ev.op \in CacheOps => ev.ret # Raised

\* Witness of C26: a get made in the second session, whose maps no
\* constructor initialised, ends in AttributeError while the first session
\* holds an entry.
C26_Witness ==
    /\ ev.op = "get"
    /\ InOtherSession(ev)
    /\ ~other_session.initialised
    /\ ev.ret = Raised
    /\ data_cache # EmptyDict


-----------------------------------------------------------------------------
(* C27 (checked under SpecFresh) *)

\* The clock value at which the price series v was read from its file
ReadAt(v) == v.rows[Len(v.rows)].Close

\* The rows of a table whose price comes from a price series
PricedRows(table) == {i \in 1..Len(table.rows) : table.rows[i].current_price # 0}

\* a return of the Lazy Loader with a value
LazyValueStep ==
    Idle /\ ev'.op = "LazyDataLoader.load_stock_data" /\ ev'.ret # None

\* a return of the Sector Aggregator's load
TableStep == Idle /\ ev'.op = "load_sector_data"

\* C27 as stated: a value the Lazy Loader returns was read from the Ticker
\* Store less than the cache ttl before the return, and every price of a table
\* the Sector Aggregator returns was read from its price file less than the
\* aggregator ttl before the return.
C27_ReturnedDataYoungerThanTtl ==
    [][ /\ LazyValueStep => now - ReadAt(ev'.ret) < cache_ttl
        /\ TableStep =>
              \A i \in PricedRows(ev'.ret) :
                 now - ev'.ret.rows[i].current_price < _sector_cache_ttl
      ]_vars

\* C27, amended: a value the Lazy Loader returns was read from the Ticker
\* Store less than the cache ttl before the return; every price of a table
\* the Sector Aggregator returns was read from its price file less than the
\* cache ttl before the table was built, and the table is returned less than
\* the aggregator ttl after it was built -- so less than cache ttl plus
\* aggregator ttl, and possibly more than the aggregator ttl, before the
\* return.
C27_ReturnedDataYoungerThanBothTtls ==
    [][ /\ LazyValueStep => now - ReadAt(ev'.ret) < cache_ttl
        /\ TableStep =>
              /\ now - _last_sector_load_time' < _sector_cache_ttl
              /\ \A i \in PricedRows(ev'.ret) :
                    /\ _last_sector_load_time' - ev'.ret.rows[i].current_price < cache_ttl
                    /\ now - ev'.ret.rows[i].current_price < cache_ttl + _sector_cache_ttl
      ]_vars

\* Witness of C27: the aggregator returns the table it holds, built less than
\* the aggregator ttl ago, with a price that was read a full cache ttl ago.
C27_Witness ==
    /\ ev.op = "load_sector_data"
    /\ ~ev.rebuilt
    /\ now - _last_sector_load_time < _sector_cache_ttl
    /\ \E i \in PricedRows(ev.ret) : now - ev.ret.rows[i].current_price >= cache_ttl


-----------------------------------------------------------------------------
(* C28 (checked under Spec) *)

\* C28: in every reachable state the keys that have a value are the keys that
\* have a timestamp, and no timestamp is later than the clock.
C28_ValuesAndTimestampsAgree ==
    /\ DOMAIN data_cache = DOMAIN cache_timestamps
    /\ \A K \in DOMAIN cache_timestamps : cache_timestamps[K] <= now

\* Witness of C28: a partial clear has removed one entry and left another,
\* which was stored before the clock last moved.
C28_Witness ==
    /\ ev.op = "clear"
    /\ ev.args.ticker # None
    /\ ev.removed # {}
    /\ DOMAIN data_cache # {}
    /\ \E K \in DOMAIN cache_timestamps : cache_timestamps[K] < now


-----------------------------------------------------------------------------
(* C29 (checked under Spec) *)

\* C29: the aggregator's table and build time do not depend on the shared
\* cache: a clear, full or partial, and a set leave both as they were, and a
\* load without force_reload that finds a table younger than the aggregator's
\* ttl returns that table without a rebuild whatever the shared cache holds,
\* an emptied cache included.
C29_TableIndependentOfSharedCache ==
    [][ /\ (Idle /\ ev'.op \in {"clear", "set"}) => UNCHANGED sectorVars
        /\ ( /\ TableStep /\ ~ev'.args.force_reload
             /\ _sector_data_cache # None
             /\ now - _last_sector_load_time < _sector_cache_ttl ) =>
              /\ ev'.ret = _sector_data_cache
              /\ ~ev'.rebuilt
              /\ UNCHANGED sectorVars
      ]_vars

\* Witness of C29: a load without force_reload returns the held table, which
\* has a price taken from a price series, while the shared cache is empty: the
\* entry the build had stored or used has been cleared since.
C29_Witness ==
    /\ ev.op = "load_sector_data"
    /\ ~ev.args.force_reload
    /\ ~ev.rebuilt
    /\ ev.ret = _sector_data_cache
    /\ PricedRows(ev.ret) # {}
    /\ data_cache = EmptyDict
    /\ cache_timestamps = EmptyDict


-----------------------------------------------------------------------------
(* C30 (checked under SpecListing) *)

\* The place of a digit in the order of the characters
DigitRank(c) == CHOOSE i \in 0..9 : ToString(i) = c

\* a < b for strings of digits, as Python compares strings
RECURSIVE SeqLess(_, _)
SeqLess(a, b) ==
    IF b = <<>> THEN FALSE
    ELSE IF a = <<>> THEN TRUE
    ELSE IF Head(a) # Head(b) THEN DigitRank(Head(a)) < DigitRank(Head(b))
    ELSE SeqLess(Tail(a), Tail(b))

StrLess(a, b) == SeqLess(Chars(a), Chars(b))

\* a call that lists the tickers: get_available_tickers itself or a rebuild
ListingStep ==
    Idle /\ (ev'.op = "StockDataLoader.get_available_tickers" \/ ev'.rebuilt)

\* C30: the first listing is exactly the names of the sub-directories of the
\* data root that consist of digits only, in ascending (string) order without
\* duplicates, and it is memoised: once a list is held no step changes it,
\* every later call of get_available_tickers returns it and every later
\* rebuild, forced or not, scans the tickers of that list only, whatever
\* directories the data root has by then.
C30_ListingSortedAndMemoised ==
    [][ /\ (ListingStep /\ _available_tickers = None) =>
              LET l == _available_tickers'.items
              IN  /\ Range(l) = {d \in ev'.fs.dirs :
                                    Chars(d) # <<>> /\ Range(Chars(d)) \subseteq Digits}
                  /\ \A i \in 1..(Len(l) - 1) : StrLess(l[i], l[i + 1])
        /\ _available_tickers # None => UNCHANGED _available_tickers
        /\ (Idle /\ ev'.op = "StockDataLoader.get_available_tickers") =>
              ev'.ret = _available_tickers'
        /\ (Idle /\ ev'.rebuilt) =>
              RowTickers(ev'.ret) =
                 SelectSeq(_available_tickers'.items, LAMBDA t : YieldsRow(ev'.fs, t))
      ]_vars

\* Witness of C30: a forced rebuild that holds the list 1064, 900 of the first
\* call and finds the directories 7203, 900 and logs: 1064 is gone and 7203,
\* added since, is not scanned; the table has the row of 900 only.
C30_Witness ==
    /\ ev.rebuilt
    /\ ev.args.force_reload
    /\ _available_tickers = List(<<"1064", "900">>)
    /\ ev.fs.dirs = {"7203", "900", "logs"}
    /\ RowTickers(ev.ret) = <<"900">>
    /\ Read("7203", "company_info") \notin Range(ev.reads)

====
